---------------------------- MODULE Spec2Model ----------------------------
(***************************************************************************)
(* A model of the OpenDxBench evaluation pipeline (src/eval): the parser   *)
(* of model responses, the job diff, the sequential and the parallel       *)
(* prediction runner with its backfill, the OAuth2 token cache and the     *)
(* ICD-11 resolver with the standardization runner.                        *)
(*                                                                         *)
(* Each component has its own specification over the module's variables;   *)
(* the variables of the other components stay at their idle values.        *)
(***************************************************************************)
EXTENDS Integers, Sequences, FiniteSets, TLC

VARIABLES
    \* extract_diagnosis_list_from_output, applied to one response
    response,       \* the model response: a sequence of tokens, or NonString
    parsed,         \* the outcome of the call, Unset before it
    \* get_todo_data, applied to one source and one sink
    source,         \* the records of the input file, in file order
    sink,           \* the output file: NoFile, or its records
    todo,           \* the returned todo_data
    diffStage,      \* "none", "pred" (run.py) or "std" (standardized_pred.py)
    \* _get_token and its callers
    clock,          \* time.time()
    token_cache,    \* _token_cache: access_token (0 is None) and expiry
    issued,         \* the tokens the token endpoint has issued so far
    exchanges,      \* the requests posted to the token endpoint so far
    tokPc,          \* per caller: "idle", "post", "ret", "done" or "raised"
    tokCall,        \* per caller: what its last call saw, did and returned
    \* get_pred_icd_11_parallel
    pred_store,     \* the raw prediction file: records pmid, pred_diagnoses
    std_store,      \* the standardized file: NoFile, or its records
    stdPc,          \* "start", "pool", "done" (the pool has finished), "merge",
                    \* "write" (write_jsonl has opened the file), "merged" or "failed"
                    \* (correct_pred_icd_11_none raised)
    stdTodo,        \* data: the records still to standardize
    stdFut,         \* per submitted record: its future
    std_lock,       \* write_lock: 0 when free, else the future holding it
    stdAuthNone,    \* whether the pool has written an entry as unresolved
                    \* because the credential exchange failed
    \* correct_pred_icd_11_none
    processed_list, \* processed_list: the records read, patched and written back
    mergeIdx,       \* the position of the loop in pred_list
    std_prior,      \* the standardized file as the program found it
    retried,        \* the entries (pmid, term) the merge has re-attempted
    \* main_eval and main_eval_parallel
    input_data,     \* the records of input_jsonl, in file order
    output_file,    \* the file at output_path: NoFile, or its records
    parallel,       \* --parallel: main_eval_parallel, else main_eval
    max_retries,    \* --max_retries
    benchmark,      \* the benchmark file: whether it exists, and the defect of
                    \* one of its records, if any
    runPc,          \* "start", "pass", "item", "pool", "backfill", "done",
                    \* "crashed" or "stopped" (the process was stopped)
    retry,          \* the passes started so far
    todo_data,      \* todo_data of the current pass
    runIdx,         \* main_eval: the position of the loop in todo_data
    runFut,         \* main_eval_parallel: per submitted item, its future
    write_lock,     \* write_lock: 0 when free, else the future holding it
    runExc,         \* the exception that ended the run, "none" if none did
    rerun,          \* whether this run follows a finished run
    queried,        \* whether this run has sent a request to the model
    finished_output,\* the output file as the run before this one left it
    appended,       \* the pmids of the records this run has appended, in order
    unparsed,       \* the pmids whose attempt of the current pass gave no list
    warned,         \* the pmids the current pass has named in a warning
    asked,          \* the pmids this run has sent a request to the model for
    restarted,      \* whether this run follows a run that stopped in a pass
    pass_start,     \* the output file as the diff of the current pass read it
    \* search_chapter_by_code, applied to one code
    icd_code,       \* the code: a stem, and any cluster qualifiers after '&'
    parent_of,      \* the service's entities: the first parent of each
    walkPc,         \* "code", "walk", "done" or "raised"
    cur_url_info,   \* the entity the walk is at, 0 before the first fetch
    fetches,        \* the calls of get_info_by_url_code so far
    turn,           \* the turns of the loop of the walk so far, modulo 2
    walk_title,     \* the returned title, NoTitle until the walk returns
    \* try_icd_encoding, applied to one term
    term_svc,       \* the answers of the service to the requests of the call
    requests_sent,  \* the requests the call has sent, in order
    try_result,     \* the outcome of the call, NotCalled before it
    \* flex_search_icd_11, applied to one candidate list
    scores,         \* the scores of destinationEntities, in order
    flex_res        \* the position returned, 0 before the call, -1 for ValueError

parseVars == <<response, parsed>>
diffVars  == <<source, sink, todo, diffStage>>
tokVars   == <<clock, token_cache, issued, exchanges, tokPc, tokCall>>
stdVars   == <<pred_store, std_store, stdPc, stdTodo, stdFut, std_lock, stdAuthNone,
               processed_list, mergeIdx, std_prior, retried>>
runVars   == <<input_data, output_file, parallel, max_retries, runPc, retry,
               todo_data, runIdx, runFut, write_lock, runExc, rerun, queried,
               finished_output, benchmark, appended, unparsed, warned, asked,
               restarted, pass_start>>
walkVars  == <<icd_code, parent_of, walkPc, cur_url_info, fetches, turn, walk_title>>
tryVars   == <<term_svc, requests_sent, try_result>>
flexVars  == <<scores, flex_res>>
icdVars   == <<walkVars, tryVars, flexVars>>
vars      == <<parseVars, diffVars, tokVars, stdVars, runVars, icdVars>>

-----------------------------------------------------------------------------
(* Bounds of the model. *)

\* the longest response, in tokens
MaxLen == 5
\* the longest input file and the longest existing output file, in records
MaxSrc == 3
MaxSink == 2
\* pmids are 1..MaxPmid
MaxPmid == 3
\* the callers of _get_token, the last instant of the clock, and the most
\* requests the token endpoint answers
NumCallers == 2
MaxClock == 40
MaxExchanges == 3
\* the most records of the raw prediction file, and the threads of a pool
MaxPred == 2
MaxWorkers == 2
\* the most records of the benchmark file, and the largest --max_retries
MaxItems == 2
MaxRetries == 2
\* the entities of the terminology service, and the value at which the count
\* of entity fetches stops counting
MaxEntities == 3
MaxFetches == 4
\* the most candidates of a flexible search
MaxCands == 3

-----------------------------------------------------------------------------
(***************************************************************************)
(* RESPONSES.  A response is a sequence of tokens, each standing for a     *)
(* fixed piece of text; the response is their concatenation:               *)
(*    "M"   ### Output ###      "["  [        "]"  ]       ","  ,          *)
(*    "qA"  "A"   "qB"  "B"     (double-quoted strings)                    *)
(*    "nA"  1. A  "nB"  2. B    (numbered items)                           *)
(*    "nl"  a line break                                                   *)
(* No token starts or ends with '.', and only "nl" is white space.  A      *)
(* Python string of a result is a sequence of chunks: the letters "A" and  *)
(* "B", and a token's name for its raw text.                               *)
(***************************************************************************)
Alphabet == {"M", "[", "]", "qA", "qB", "nA", "nB", "nl", ","}
QTok == {"qA", "qB"}
NTok == {"nA", "nB"}
Letter(tok) == IF tok \in {"qA", "nA"} THEN "A" ELSE "B"

\* a response that is not a string: model() returned None (request_handler.py)
NonString == <<"None">>

Fail == [ok |-> FALSE, val |-> <<>>]
Ok(v) == [ok |-> TRUE, val |-> v]

RetList(v) == [kind |-> "list", val |-> v, exc |-> ""]
RetNone == [kind |-> "none", val |-> <<>>, exc |-> ""]
Raised(e) == [kind |-> "raise", val |-> <<>>, exc |-> e]
Unset == [kind |-> "unset", val |-> <<>>, exc |-> ""]

Min(S) == CHOOSE x \in S : \A y \in S : x <= y

\* text.strip('.').strip(): no token starts or ends with '.', so what is
\* stripped is the white space at both ends
RECURSIVE LStrip(_)
LStrip(t) == IF t # <<>> /\ Head(t) = "nl" THEN LStrip(Tail(t)) ELSE t
RECURSIVE RStrip(_)
RStrip(t) ==
    IF t # <<>> /\ t[Len(t)] = "nl" THEN RStrip(SubSeq(t, 1, Len(t) - 1)) ELSE t
Strip(t) == RStrip(LStrip(t))

\* white space between the tokens of a literal is ignored
Sig(t) == SelectSeq(t, LAMBDA x : x # "nl")

\* json.loads of a flat literal: a string, or a list of strings separated by
\* commas.  isList tells the two apart.
JsonItems(inner) ==
    IF inner = <<>> THEN Ok(<<>>)
    ELSE IF /\ Len(inner) % 2 = 1
            /\ \A i \in 1..Len(inner) :
                  IF i % 2 = 1 THEN inner[i] \in QTok ELSE inner[i] = ","
         THEN Ok([k \in 1..((Len(inner) + 1) \div 2) |-> <<Letter(inner[2 * k - 1])>>])
         ELSE Fail

JsonParse(t) ==
    LET u == Sig(t) IN
    IF Len(u) = 1 /\ u[1] \in QTok
    THEN [ok |-> TRUE, isList |-> FALSE, val |-> <<>>]
    ELSE IF Len(u) >= 2 /\ u[1] = "[" /\ u[Len(u)] = "]"
         THEN LET r == JsonItems(SubSeq(u, 2, Len(u) - 1)) IN
              [ok |-> r.ok, isList |-> r.ok, val |-> r.val]
         ELSE [ok |-> FALSE, isList |-> FALSE, val |-> <<>>]

\* Python reads '#' to the end of the line as a comment: the marker and what
\* follows it on its line are dropped
RECURSIVE DecommentFrom(_, _)
DecommentFrom(t, skip) ==
    IF t = <<>> THEN <<>>
    ELSE LET x == Head(t) IN
         IF x = "nl" THEN <<x>> \o DecommentFrom(Tail(t), FALSE)
         ELSE IF skip THEN DecommentFrom(Tail(t), TRUE)
         ELSE IF x = "M" THEN DecommentFrom(Tail(t), TRUE)
         ELSE <<x>> \o DecommentFrom(Tail(t), FALSE)
Decomment(t) == DecommentFrom(t, FALSE)

\* Python ignores a line break inside brackets
RECURSIVE DropInnerNl(_, _)
DropInnerNl(t, depth) ==
    IF t = <<>> THEN <<>>
    ELSE LET x == Head(t)
             d == IF x = "[" THEN depth + 1 ELSE IF x = "]" THEN depth - 1 ELSE depth
         IN IF x = "nl" /\ d > 0 THEN DropInnerNl(Tail(t), d)
            ELSE <<x>> \o DropInnerNl(Tail(t), d)

\* the elements of a Python list display: adjacent string literals are
\* concatenated, a trailing comma is allowed
RECURSIVE PyItemsAcc(_, _, _)
PyItemsAcc(inner, out, cur) ==
    IF inner = <<>> THEN Ok(IF cur = <<>> THEN out ELSE Append(out, cur))
    ELSE LET x == Head(inner) IN
         IF x \in QTok THEN PyItemsAcc(Tail(inner), out, Append(cur, Letter(x)))
         ELSE IF x = "," /\ cur # <<>> THEN PyItemsAcc(Tail(inner), Append(out, cur), <<>>)
         ELSE Fail

\* ast.literal_eval, when it returns a list
PyList(t) ==
    LET u == Strip(DropInnerNl(Decomment(t), 0)) IN
    IF /\ \A i \in 1..Len(u) : u[i] # "nl"
       /\ Len(u) >= 2 /\ u[1] = "[" /\ u[Len(u)] = "]"
    THEN PyItemsAcc(SubSeq(u, 2, Len(u) - 1), <<>>, <<>>)
    ELSE Fail

\* step 0: the whole text as a JSON/AST list.  ast.literal_eval is tried only
\* when json.loads raises
WholeLiteral(t) ==
    LET j == JsonParse(t) IN
    IF j.ok THEN (IF j.isList THEN Ok(j.val) ELSE Fail)
    ELSE PyList(t)

\* re.search(r"### Output ###\s*(\[[\s\S]*?\])", text): the first marker that
\* white space and a '[' follow, with a ']' after it; the snippet runs from
\* that '[' to the first ']'
BracketStarts(t) ==
    {j \in 1..Len(t) :
        /\ t[j] = "["
        /\ \E i \in 1..(j - 1) :
              t[i] = "M" /\ \A m \in (i + 1)..(j - 1) : t[m] = "nl"
        /\ \E k \in (j + 1)..Len(t) : t[k] = "]"}

BracketSnippet(t) ==
    IF BracketStarts(t) = {} THEN Fail
    ELSE LET j == Min(BracketStarts(t))
             k == Min({n \in (j + 1)..Len(t) : t[n] = "]"})
         IN Ok(SubSeq(t, j, k))

\* step 1: json.loads(snippet), then ast.literal_eval(snippet)
SnippetParse(s) ==
    LET j == JsonParse(s) IN
    IF j.ok THEN Ok(j.val) ELSE PyList(s)

\* text.split("### Output ###", 1)[1]
HasMarker(t) == \E i \in 1..Len(t) : t[i] = "M"
OutputPart(t) ==
    LET i == Min({n \in 1..Len(t) : t[n] = "M"}) IN SubSeq(t, i + 1, Len(t))

\* list(dict.fromkeys(quoted)): the first occurrence of each, in order
RECURSIVE Dedup(_, _)
Dedup(s, seen) ==
    IF s = <<>> THEN <<>>
    ELSE IF Head(s) \in seen THEN Dedup(Tail(s), seen)
    ELSE <<Head(s)>> \o Dedup(Tail(s), seen \cup {Head(s)})

\* step 2: re.findall(r'"([^"]+)"', output_part); the alphabet has no single
\* quote, so the second findall finds nothing
Quoted(part) ==
    LET q == SelectSeq(part, LAMBDA x : x \in QTok) IN
    Dedup([i \in 1..Len(q) |-> <<Letter(q[i])>>], {})

\* output_part.splitlines()
RECURSIVE SplitLines(_, _)
SplitLines(t, cur) ==
    IF t = <<>> THEN <<cur>>
    ELSE IF Head(t) = "nl" THEN <<cur>> \o SplitLines(Tail(t), <<>>)
    ELSE SplitLines(Tail(t), Append(cur, Head(t)))

\* step 3: re.match(r"\s*\d+\.\s*(.+)", line) for each line; the item is the
\* rest of the line
Numbered(part) ==
    LET ls == SplitLines(part, <<>>)
        hit == SelectSeq(ls, LAMBDA l : l # <<>> /\ Head(l) \in NTok)
    IN [i \in 1..Len(hit) |-> <<Letter(Head(hit[i]))>> \o Tail(hit[i])]

\* extract_diagnosis_list_from_output: steps 2's lines are inside `if match:`,
\* so output_part is bound only when the bracket pattern matched; step 3 reads
\* it in every case
extract_diagnosis_list_from_output(text) ==
    IF text = NonString THEN RetNone
    ELSE
    LET t == Strip(text)
        w == WholeLiteral(t)
        m == BracketSnippet(t)
    IN IF w.ok THEN RetList(w.val)
       ELSE IF m.ok
       THEN LET r == SnippetParse(m.val)
                part == OutputPart(t)
            IN IF r.ok THEN RetList(r.val)
               ELSE IF Quoted(part) # <<>> THEN RetList(Quoted(part))
               ELSE IF Numbered(part) # <<>> THEN RetList(Numbered(part))
               ELSE RetNone
       ELSE Raised("UnboundLocalError")

\* The responses of the model: up to MaxLen tokens, no list nested in a list
\* (as the text stands and as Python reads it), or no string at all
NoNest(t) ==
    LET b == SelectSeq(t, LAMBDA x : x \in {"[", "]"}) IN
    \A i \in 1..(Len(b) - 1) : ~(b[i] = "[" /\ b[i + 1] = "[")
Texts == UNION {[1..n -> Alphabet] : n \in 0..MaxLen}
Responses == {t \in Texts : NoNest(t) /\ NoNest(Decomment(t))} \cup {NonString}

ParseIdle == response = NonString /\ parsed = Unset
ParseInit == response \in Responses /\ parsed = Unset

Extract ==
    /\ parsed = Unset
    /\ parsed' = extract_diagnosis_list_from_output(response)
    /\ UNCHANGED <<response, diffVars, tokVars, stdVars, runVars, icdVars>>

-----------------------------------------------------------------------------
(***************************************************************************)
(* THE JOB DIFF.  A file is absent or holds a sequence of records; every   *)
(* record has a pmid, and the diff reads nothing else of it.               *)
(***************************************************************************)
NoFile == [exists |-> FALSE, recs |-> <<>>]
File(recs) == [exists |-> TRUE, recs |-> recs]

Pmids == 1..MaxPmid
Range(s) == {s[i] : i \in 1..Len(s)}
Count(s, x) == Cardinality({i \in 1..Len(s) : s[i] = x})
IsSorted(s) == \A i \in 1..(Len(s) - 1) : s[i] <= s[i + 1]

\* [item['pmid'] for item in records]
PmidsOf(recs) == [i \in 1..Len(recs) |-> recs[i].pmid]

\* list.sort(key=pmid): a stable sort, here by insertion
RECURSIVE Insert(_, _)
Insert(s, x) ==
    IF s = <<>> THEN <<x>>
    ELSE IF x.pmid < Head(s).pmid THEN <<x>> \o s
    ELSE <<Head(s)>> \o Insert(Tail(s), x)
RECURSIVE SortByPmid(_)
SortByPmid(s) ==
    IF s = <<>> THEN <<>>
    ELSE Insert(SortByPmid(SubSeq(s, 1, Len(s) - 1)), s[Len(s)])

\* parsed_data: the records of the output file, [] when it does not exist
ParsedData(out) == IF out.exists THEN out.recs ELSE <<>>

TodoFilter_SkipsLastRecord(data, parsed_pmid) ==
    SelectSeq(data,
              LAMBDA it : it.pmid \notin Range(SubSeq(parsed_pmid, 1, Len(parsed_pmid) - 1)))

\* the loop that keeps the items whose pmid is not in parsed_pmid
TodoFilter(data, parsed_pmid) ==
    SelectSeq(data, LAMBDA it : it.pmid \notin Range(parsed_pmid))

get_todo_data_RetriesEmpty(data, out) ==
    SortByPmid(TodoFilter(data,
        PmidsOf(SelectSeq(ParsedData(out), LAMBDA r : r.pred_diagnoses # <<>>))))

\* run.py: the todo items, sorted by pmid
get_todo_data(data, out) == SortByPmid(TodoFilter(data, PmidsOf(ParsedData(out))))

\* standardized_pred.py: the same diff, not sorted
std_get_todo_data(data, out) == TodoFilter(data, PmidsOf(ParsedData(out)))

SeqsUpTo(S, n) == UNION {[1..k -> S] : k \in 0..n}

\* the records of the two files of a diff, as far as the diff reads them
DiffItems == {[pmid |-> p] : p \in Pmids}

DiffIdle == source = <<>> /\ sink = NoFile /\ todo = <<>> /\ diffStage = "none"
DiffInit ==
    /\ source \in SeqsUpTo(DiffItems, MaxSrc)
    /\ sink \in {NoFile} \cup {File(r) : r \in SeqsUpTo(DiffItems, MaxSink)}
    /\ todo = <<>>
    /\ diffStage = "none"

\* the diff of the prediction stage (main_eval, main_eval_parallel)
DiffPred ==
    /\ diffStage = "none"
    /\ todo' = get_todo_data(source, sink)
    /\ diffStage' = "pred"
    /\ UNCHANGED <<source, sink, parseVars, tokVars, stdVars, runVars, icdVars>>

\* the diff of the standardization stage (get_pred_icd_11_parallel)
DiffStd ==
    /\ diffStage = "none"
    /\ todo' = std_get_todo_data(source, sink)
    /\ diffStage' = "std"
    /\ UNCHANGED <<source, sink, parseVars, tokVars, stdVars, runVars, icdVars>>

-----------------------------------------------------------------------------
(***************************************************************************)
(* THE TOKEN CACHE.  _get_token reads the clock, tests the cache, posts    *)
(* the client-credentials request when the test fails, stores the answer   *)
(* and returns the cached token.  Tokens are 1, 2, ... and 0 is None.      *)
(***************************************************************************)
\* "提前 10s 刷新": the seconds taken off expires_in
RefreshMargin == 10
\* the expires_in of an answer; 0 also stands for an answer without the field
\* (data.get("expires_in", 0))
ExpiresIn == {0, 20, 30}
\* the clock moves in steps of 10 seconds
Ticks == {10}

Callers == 1..NumCallers

NoCall ==
    [now |-> 0, tok0 |-> 0, exp0 |-> 0, posted |-> 0, newTok |-> 0,
     expires_in |-> 0, ret |-> 0, expiry |-> 0]

TokIdle ==
    /\ clock = 0
    /\ token_cache = [access_token |-> 0, expiry |-> 0]
    /\ issued = 0
    /\ exchanges = 0
    /\ tokPc = [c \in Callers |-> "idle"]
    /\ tokCall = [c \in Callers |-> NoCall]

NeedsExchange_Strict(cache, now) == cache.access_token = 0 \/ now > cache.expiry

\* if not _token_cache["access_token"] or now >= _token_cache["expiry"]
NeedsExchange(cache, now) == cache.access_token = 0 \/ now >= cache.expiry

NewExpiry_NoMargin(now, expires_in) == now + expires_in

\* now + data.get("expires_in", 0) - 10
NewExpiry(now, expires_in) == now + expires_in - RefreshMargin

\* now = time.time() and the test of the cache
TokBegin(c) ==
    /\ tokPc[c] \in {"idle", "done", "raised"}
    /\ tokCall' = [tokCall EXCEPT ![c] =
                      [NoCall EXCEPT !.now = clock,
                                     !.tok0 = token_cache.access_token,
                                     !.exp0 = token_cache.expiry]]
    /\ tokPc' = [tokPc EXCEPT ![c] =
                    IF NeedsExchange(token_cache, clock) THEN "post" ELSE "ret"]
    /\ UNCHANGED <<clock, token_cache, issued, exchanges>>

\* requests.post answers 2xx: the token and the expiry are cached
TokExchangeOk(c, e) ==
    /\ tokPc[c] = "post"
    /\ exchanges < MaxExchanges
    /\ issued' = issued + 1
    /\ exchanges' = exchanges + 1
    /\ token_cache' = [access_token |-> issued + 1,
                       expiry |-> NewExpiry(tokCall[c].now, e)]
    /\ tokCall' = [tokCall EXCEPT ![c].posted = @ + 1,
                                  ![c].newTok = issued + 1,
                                  ![c].expires_in = e]
    /\ tokPc' = [tokPc EXCEPT ![c] = "ret"]
    /\ UNCHANGED clock

\* requests.post raises, or raise_for_status raises on a non-2xx answer: the
\* exception leaves _get_token and the cache is as it was
TokExchangeFail(c) ==
    /\ tokPc[c] = "post"
    /\ exchanges < MaxExchanges
    /\ exchanges' = exchanges + 1
    /\ tokCall' = [tokCall EXCEPT ![c].posted = @ + 1]
    /\ tokPc' = [tokPc EXCEPT ![c] = "raised"]
    /\ UNCHANGED <<clock, token_cache, issued>>

\* return _token_cache["access_token"]
TokReturn(c) ==
    /\ tokPc[c] = "ret"
    /\ tokCall' = [tokCall EXCEPT ![c].ret = token_cache.access_token,
                                  ![c].expiry = token_cache.expiry]
    /\ tokPc' = [tokPc EXCEPT ![c] = "done"]
    /\ UNCHANGED <<clock, token_cache, issued, exchanges>>

\* time passes
Tick(d) ==
    /\ clock + d <= MaxClock
    /\ clock' = clock + d
    /\ UNCHANGED <<token_cache, issued, exchanges, tokPc, tokCall>>

\* no call is in progress
TokQuiet == \A c \in Callers : tokPc[c] \in {"idle", "done", "raised"}

\* one call at a time: a caller starts only when no call is in progress
SeqBegin ==
    /\ \E c \in Callers : TokQuiet /\ TokBegin(c)
    /\ UNCHANGED <<parseVars, diffVars, stdVars, runVars, icdVars>>
\* the threads of the standardization pool: a caller starts whenever it is
\* not in a call itself
ConcBegin ==
    /\ \E c \in Callers : TokBegin(c)
    /\ UNCHANGED <<parseVars, diffVars, stdVars, runVars, icdVars>>
SeqExchangeOk ==
    /\ \E c \in Callers, e \in ExpiresIn : TokExchangeOk(c, e)
    /\ UNCHANGED <<parseVars, diffVars, stdVars, runVars, icdVars>>
SeqExchangeFail ==
    /\ \E c \in Callers : TokExchangeFail(c)
    /\ UNCHANGED <<parseVars, diffVars, stdVars, runVars, icdVars>>
SeqReturn ==
    /\ \E c \in Callers : TokReturn(c)
    /\ UNCHANGED <<parseVars, diffVars, stdVars, runVars, icdVars>>
ClockTick ==
    /\ \E d \in Ticks : Tick(d)
    /\ UNCHANGED <<parseVars, diffVars, stdVars, runVars, icdVars>>

-----------------------------------------------------------------------------
(***************************************************************************)
(* THE ICD-11 RESOLVER.  The answers of the terminology service to the     *)
(* requests of one try_icd_encoding call are the record svc:               *)
(*   auth   "ok" | "fail"   _get_token returns / raises (the exchange      *)
(*                          failed: requests.post or raise_for_status)     *)
(*   auto   the answer to the autocode request on the term                 *)
(*   flex   the answer to the flexible search                              *)
(*   auto2  the answer to the autocode request on the candidate's label    *)
(*   chap   the outcome of the chapter lookup                              *)
(* An operator returns Val(..), NoneVal or Exc(..), an exception raised.   *)
(***************************************************************************)
\* "error": the request or r.json() raises; "empty": a falsy JSON value;
\* "nocode": an object without theCode; "notext": theCode, no matchingText
AutoAnswers == {"error", "empty", "nocode", "notext", "code"}
\* "error": the request, r.json() or a key lookup raises; "empty": no
\* destinationEntities; "cand": candidates, the best one with a label
FlexAnswers == {"error", "empty", "cand"}
\* "error": a request or a key lookup of get_url_code, get_info_by_url_code
\* or the walk raises; "ok": the walk reaches the root
ChapAnswers == {"error", "ok"}
AuthAnswers == {"ok", "fail"}
\* an answer to a request that try_icd_encoding never sends is "error"
Requested(s) ==
    LET none == s.auth = "fail" \/ s.auto \in {"error", "notext"}
        direct == ~none /\ s.auto = "code"
        second == ~none /\ ~direct /\ s.flex = "cand"
        lookup == direct \/ (second /\ s.auto2 = "code")
    IN /\ (none \/ direct) => s.flex = "error"
       /\ ~second => s.auto2 = "error"
       /\ ~lookup => s.chap = "error"
       /\ s.auth = "fail" => s.auto = "error"
Services ==
    {s \in [auth : AuthAnswers, auto : AutoAnswers, flex : FlexAnswers,
            auto2 : AutoAnswers, chap : ChapAnswers] : Requested(s)}

NoneStr == "None"
Val(code, title, chapter) ==
    [st |-> "val", code |-> code, title |-> title, chapter |-> chapter, exc |-> ""]
NoneVal ==
    [st |-> "none", code |-> NoneStr, title |-> NoneStr, chapter |-> NoneStr, exc |-> ""]
Exc(e) ==
    [st |-> "exc", code |-> NoneStr, title |-> NoneStr, chapter |-> NoneStr, exc |-> e]

\* _get_token as its callers see it: the token, or the exception of a failed
\* exchange
get_token(auth) == IF auth = "ok" THEN Val("", "", "") ELSE Exc("HTTPError")

\* search_icd_11: the JSON of the answer; which is 1 for the term, 2 for the
\* label of the flexible search's candidate
search_icd_11(auth, answer, which) ==
    IF get_token(auth).st = "exc" THEN get_token(auth)
    ELSE IF answer = "error" THEN Exc("RequestException")
    ELSE [st |-> "val",
          truthy |-> answer # "empty",
          keys |-> CASE answer = "code" -> {"theCode", "matchingText"}
                     [] answer = "notext" -> {"theCode"}
                     [] answer = "nocode" -> {"matchingText"}
                     [] OTHER -> {},
          theCode |-> IF which = 1 THEN "code1" ELSE "code2",
          matchingText |-> IF which = 1 THEN "text1" ELSE "text2",
          exc |-> ""]

\* flex_search_icd_11: ValueError on an empty candidate list
flex_search_icd_11(auth, answer) ==
    IF get_token(auth).st = "exc" THEN get_token(auth)
    ELSE IF answer = "error" THEN Exc("RequestException")
    ELSE IF answer = "empty" THEN Exc("ValueError")
    ELSE Val("", "label", "")

\* search_chapter_by_code: the title of the chapter
search_chapter_by_code(auth, answer) ==
    IF get_token(auth).st = "exc" THEN get_token(auth)
    ELSE IF answer = "error" THEN Exc("RequestException")
    ELSE Val("", "", "chapter")

IcdDict_KeepsCode(results, svc) ==
    IF "theCode" \notin results.keys \/ "matchingText" \notin results.keys
    THEN Exc("KeyError")
    ELSE LET ch == search_chapter_by_code(svc.auth, svc.chap) IN
         IF ch.st = "exc" THEN Val(results.theCode, results.matchingText, NoneStr)
         ELSE Val(results.theCode, results.matchingText, ch.chapter)

\* the dict built from an autocode answer: results['theCode'],
\* results['matchingText'], search_chapter_by_code(results['theCode'])
IcdDict(results, svc) ==
    IF "theCode" \notin results.keys \/ "matchingText" \notin results.keys
    THEN Exc("KeyError")
    ELSE LET ch == search_chapter_by_code(svc.auth, svc.chap) IN
         IF ch.st = "exc" THEN ch
         ELSE Val(results.theCode, results.matchingText, ch.chapter)

\* the body of the try block of try_icd_encoding
TryBody(svc) ==
    LET results == search_icd_11(svc.auth, svc.auto, 1) IN
    IF results.st = "exc" THEN results
    ELSE IF results.truthy /\ "theCode" \in results.keys
    THEN IcdDict(results, svc)
    ELSE LET flex == flex_search_icd_11(svc.auth, svc.flex) IN
         IF flex.st = "exc" THEN flex
         ELSE LET flex_result == search_icd_11(svc.auth, svc.auto2, 2) IN
              IF flex_result.st = "exc" THEN flex_result
              ELSE IF flex_result.truthy THEN IcdDict(flex_result, svc)
              ELSE NoneVal

CatchException_OnlyValueError(r) ==
    IF r.st = "exc" /\ r.exc = "ValueError" THEN NoneVal ELSE r

\* except Exception as e: print(...); then return None
CatchException(r) == IF r.st = "exc" THEN NoneVal ELSE r

try_icd_encoding(svc) == CatchException(TryBody(svc))

\* what a call leaves behind depends on the answers only through its result
\* and through whether the exchange failed: one service per such outcome
ServiceOutcome(svc) == <<try_icd_encoding(svc), svc.auth>>
ServiceReps ==
    {CHOOSE t \in Services : ServiceOutcome(t) = o : o \in {ServiceOutcome(s) : s \in Services}}
\* the services of the calls of the merge pass: one whose autocode answer
\* resolves the term, and one whose requests all fail
MergeServices ==
    {[auth |-> "ok", auto |-> "code", flex |-> "error", auto2 |-> "error", chap |-> "ok"],
     [auth |-> "ok", auto |-> "error", flex |-> "error", auto2 |-> "error", chap |-> "error"]}

-----------------------------------------------------------------------------
(***************************************************************************)
(* THE CHAPTER WALK, search_chapter_by_code: get_url_code turns the code   *)
(* into the id of an entity, then the walk follows the first parent of     *)
(* each entity until that parent is the root of the classification.        *)
(* Entities are 1..MaxEntities.  A code is a sequence of pieces of text:    *)
(* Stem(e), the stem code of entity e, Amp, the '&', and Qual, a qualifier. *)
(***************************************************************************)
\* '455013390', the id of the root
RootId == 0
\* an entity whose answer has no first parent
NoParent == -1
NoTitle == <<>>

Entities == 1..MaxEntities
Stem(e) == <<"stem", e>>
Amp == <<"&", 0>>
Qual == <<"qualifier", 0>>
\* a code: the stem of an entity, then cluster qualifiers, each after '&'
Codes ==
    {<<Stem(e)>> \o q : e \in Entities, q \in {<<>>, <<Amp, Qual>>, <<Amp, Qual, Amp, Qual>>}}

StripCluster_KeepsAll(code) == code

\* icd_code.split('&')[0] when '&' is in icd_code
StripCluster(code) ==
    IF \E i \in 1..Len(code) : code[i] = Amp
    THEN SubSeq(code, 1, Min({i \in 1..Len(code) : code[i] = Amp}) - 1)
    ELSE code

\* get_url_code: the code-info endpoint knows the stems only; for any other
\* text its answer has no stemId and r['stemId'] raises
get_url_code(code) ==
    LET c == StripCluster(code) IN
    IF Len(c) = 1 /\ c[1] \in {Stem(e) : e \in Entities}
    THEN [kind |-> "val", id |-> c[1][2]]
    ELSE [kind |-> "raise", id |-> 0]

\* cur_url_info['title']['@value']
TitleOf(e) == <<"title", e>>

\* one more call of get_info_by_url_code
Fetched(n) == IF n < MaxFetches THEN n + 1 ELSE n

WalkIdle ==
    /\ icd_code = <<>>
    /\ parent_of = <<>>
    /\ walkPc = "idle"
    /\ cur_url_info = 0
    /\ fetches = 0
    /\ turn = 0
    /\ walk_title = NoTitle

WalkInit ==
    /\ icd_code \in Codes
    /\ parent_of \in [Entities -> Entities \cup {RootId, NoParent}]
    /\ walkPc = "code"
    /\ cur_url_info = 0
    /\ fetches = 0
    /\ turn = 0
    /\ walk_title = NoTitle

\* url_code = get_url_code(icd_code, headers) and the first
\* get_info_by_url_code
WalkStart ==
    /\ walkPc = "code"
    /\ IF get_url_code(icd_code).kind = "raise"
       THEN /\ walkPc' = "raised"
            /\ UNCHANGED <<cur_url_info, fetches>>
       ELSE /\ cur_url_info' = get_url_code(icd_code).id
            /\ fetches' = Fetched(fetches)
            /\ walkPc' = "walk"
    /\ UNCHANGED <<icd_code, parent_of, turn, walk_title>>
    /\ UNCHANGED <<parseVars, diffVars, tokVars, stdVars, runVars, tryVars, flexVars>>

\* one turn of while True: the first parent of the entity; the root ends the
\* walk, any other parent is fetched
WalkHop ==
    /\ walkPc = "walk"
    /\ LET parent_url_code == parent_of[cur_url_info] IN
       IF parent_url_code = NoParent
       THEN /\ walkPc' = "raised"
            /\ UNCHANGED <<cur_url_info, fetches, turn, walk_title>>
       ELSE IF parent_url_code = RootId
       THEN /\ walk_title' = TitleOf(cur_url_info)
            /\ walkPc' = "done"
            /\ UNCHANGED <<cur_url_info, fetches, turn>>
       ELSE /\ cur_url_info' = parent_url_code
            /\ fetches' = Fetched(fetches)
            /\ turn' = 1 - turn
            /\ UNCHANGED <<walkPc, walk_title>>
    /\ UNCHANGED <<icd_code, parent_of>>
    /\ UNCHANGED <<parseVars, diffVars, tokVars, stdVars, runVars, tryVars, flexVars>>

-----------------------------------------------------------------------------
(***************************************************************************)
(* ONE CALL OF try_icd_encoding, with the requests it sends.               *)
(***************************************************************************)
\* the answers of the service to the four requests, whether sent or not
AnyServices ==
    [auth : AuthAnswers, auto : AutoAnswers, flex : FlexAnswers,
     auto2 : AutoAnswers, chap : ChapAnswers]
NotCalled == [st |-> "unset", code |-> NoneStr, title |-> NoneStr, chapter |-> NoneStr, exc |-> ""]

\* the requests of IcdDict: search_chapter_by_code when both keys are there
DictRequests(results) ==
    IF "theCode" \in results.keys /\ "matchingText" \in results.keys
    THEN <<"chapter">> ELSE <<>>

\* the requests of the try block, in the order it sends them: a request that
\* raises is the last one
TryRequests(svc) ==
    LET results == search_icd_11(svc.auth, svc.auto, 1) IN
    IF results.st = "exc" THEN <<"autocode">>
    ELSE IF results.truthy /\ "theCode" \in results.keys
    THEN <<"autocode">> \o DictRequests(results)
    ELSE LET flex == flex_search_icd_11(svc.auth, svc.flex) IN
         IF flex.st = "exc" THEN <<"autocode", "flex">>
         ELSE LET flex_result == search_icd_11(svc.auth, svc.auto2, 2) IN
              IF flex_result.st = "exc" THEN <<"autocode", "flex", "autocode2">>
              ELSE IF flex_result.truthy
              THEN <<"autocode", "flex", "autocode2">> \o DictRequests(flex_result)
              ELSE <<"autocode", "flex", "autocode2">>

TryIdle ==
    /\ term_svc = [auth |-> "ok", auto |-> "error", flex |-> "error", auto2 |-> "error",
                   chap |-> "error"]
    /\ requests_sent = <<>>
    /\ try_result = NotCalled

TryInit ==
    /\ term_svc \in AnyServices
    /\ requests_sent = <<>>
    /\ try_result = NotCalled

\* icd = try_icd_encoding(term)
TryCall ==
    /\ try_result = NotCalled
    /\ try_result' = try_icd_encoding(term_svc)
    /\ requests_sent' = TryRequests(term_svc)
    /\ UNCHANGED term_svc
    /\ UNCHANGED <<parseVars, diffVars, tokVars, stdVars, runVars, walkVars, flexVars>>

-----------------------------------------------------------------------------
(***************************************************************************)
(* THE CHOICE OF flex_search_icd_11 among the candidates of an answer.     *)
(***************************************************************************)
\* entity['score'] of a candidate
Scores == -2..2

\* the loop over destinationEntities from position idx on: the position of
\* the first score above every score before it and above the initial
\* max_score
RECURSIVE MaxPos(_, _, _, _)
MaxPos(s, idx, max_pos, max_score) ==
    IF idx > Len(s) THEN max_pos
    ELSE IF s[idx] > max_score THEN MaxPos(s, idx + 1, idx, s[idx])
    ELSE MaxPos(s, idx + 1, max_pos, max_score)

\* the position (from 1) of the candidate flex_search_icd_11 returns, -1 for
\* the ValueError on an empty list; max_pos and max_score start at the first
\* position and at 0
flex_pos(s) == IF Len(s) = 0 THEN -1 ELSE MaxPos(s, 1, 1, 0)

FlexIdle == scores = <<>> /\ flex_res = 0
FlexInit == scores \in SeqsUpTo(Scores, MaxCands) /\ flex_res = 0

\* res = flex_search_icd_11(name)
FlexCall ==
    /\ flex_res = 0
    /\ flex_res' = flex_pos(scores)
    /\ UNCHANGED scores
    /\ UNCHANGED <<parseVars, diffVars, tokVars, stdVars, runVars, walkVars, tryVars>>

IcdIdle == WalkIdle /\ TryIdle /\ FlexIdle

-----------------------------------------------------------------------------
(***************************************************************************)
(* THE STANDARDIZATION RUNNER, get_pred_icd_11_parallel: the diff, one     *)
(* future per record still to do, each resolving its terms one by one and  *)
(* appending its record under write_lock.                                  *)
(***************************************************************************)
\* the lists of diagnoses of a raw prediction: a backfilled one, and one of
\* two terms
DiagLists == {<<>>, <<<<"A">>, <<"B">>>>}
PredRecords == {[pmid |-> p, pred_diagnoses |-> d] : p \in {1, 2}, d \in DiagLists}

\* st_pred: the entry of one term
StEntry(term, icd) ==
    [original_term |-> term, code |-> icd.code, title |-> icd.title,
     chapter |-> icd.chapter]

\* a standardized record left by an earlier run, its first term unresolved
OldStdRecord ==
    [pmid |-> 1, pred_diagnoses |-> <<<<"A">>, <<"B">>>>,
     standardized_pred_diagnosis |->
         <<StEntry(<<"A">>, NoneVal), StEntry(<<"B">>, Val("code1", "text1", "chapter"))>>]

StdIdle ==
    /\ pred_store = <<>>
    /\ std_store = NoFile
    /\ stdPc = "start"
    /\ stdTodo = <<>>
    /\ stdFut = <<>>
    /\ std_lock = 0
    /\ stdAuthNone = FALSE
    /\ processed_list = <<>>
    /\ mergeIdx = 0
    /\ std_prior = NoFile
    /\ retried = {}

\* get_pred_icd_11_parallel is not called
StdOff ==
    /\ pred_store = <<>>
    /\ std_store = NoFile
    /\ stdPc = "off"
    /\ stdTodo = <<>>
    /\ stdFut = <<>>
    /\ std_lock = 0
    /\ stdAuthNone = FALSE
    /\ processed_list = <<>>
    /\ mergeIdx = 0
    /\ std_prior = NoFile
    /\ retried = {}

StdInit ==
    /\ pred_store \in SeqsUpTo(PredRecords, MaxPred)
    /\ std_store \in {NoFile, File(<<>>), File(<<OldStdRecord>>)}
    /\ stdPc = "start"
    /\ stdTodo = <<>>
    /\ stdFut = <<>>
    /\ std_lock = 0
    /\ stdAuthNone = FALSE
    /\ processed_list = <<>>
    /\ mergeIdx = 0
    /\ std_prior = std_store
    /\ retried = {}

\* a future: "queued", "ready" (process_item has built standard and waits for
\* write_lock), "writing", "done" (it has appended its record), or "failed"
\* (process_item raised)
NewFuture == [pc |-> "queued", standard |-> <<>>, authFail |-> FALSE]
EndFuture(pc) == [pc |-> pc, standard |-> <<>>, authFail |-> FALSE]

\* data = get_todo_data(pred_file, output_path) and the submission of one
\* future per record
StdDiff ==
    /\ stdPc = "start"
    /\ stdTodo' = std_get_todo_data(pred_store, std_store)
    /\ stdFut' = [k \in 1..Len(stdTodo') |-> NewFuture]
    /\ stdPc' = "pool"
    /\ UNCHANGED <<pred_store, std_store, std_lock, stdAuthNone>>
    /\ UNCHANGED <<processed_list, mergeIdx, std_prior, retried>>
    /\ UNCHANGED <<parseVars, diffVars, tokVars, runVars, icdVars>>

StdBusy == {k \in 1..Len(stdFut) : stdFut[k].pc \in {"ready", "writing"}}
StdQueued == {k \in 1..Len(stdFut) : stdFut[k].pc = "queued"}

\* the loop over preds: try_icd_encoding and the entry of each term, svcs[n]
\* being the service's answers for term n.  An exception that leaves
\* try_icd_encoding ends process_item at that term.
StandardOf(preds, svcs) ==
    [n \in 1..Len(preds) |-> StEntry(preds[n], try_icd_encoding(svcs[n]))]
RaisesAt(preds, svcs) ==
    {n \in 1..Len(preds) : try_icd_encoding(svcs[n]).st = "exc"}

\* a free thread of the pool takes the oldest queued future and runs
\* process_item up to write_lock; the loop reads and writes nothing shared
StdProcessItem(k, svcs) ==
    /\ stdFut' = [stdFut EXCEPT ![k] =
          IF RaisesAt(stdTodo[k].pred_diagnoses, svcs) # {} THEN EndFuture("failed")
          ELSE [pc |-> "ready",
                standard |-> StandardOf(stdTodo[k].pred_diagnoses, svcs),
                authFail |-> \E n \in 1..Len(svcs) : svcs[n].auth = "fail"]]
    /\ UNCHANGED <<pred_store, std_store, stdPc, stdTodo, std_lock, stdAuthNone>>

StdResolve ==
    /\ stdPc = "pool"
    /\ StdQueued # {}
    /\ Cardinality(StdBusy) < MaxWorkers
    /\ \E svcs \in [1..Len(stdTodo[Min(StdQueued)].pred_diagnoses) -> ServiceReps] :
          StdProcessItem(Min(StdQueued), svcs)
    /\ UNCHANGED <<processed_list, mergeIdx, std_prior, retried>>
    /\ UNCHANGED <<parseVars, diffVars, tokVars, runVars, icdVars>>

AllFinished_NoWait(fut) == TRUE

\* the with block of ThreadPoolExecutor ends when every future has finished
AllFinished(fut) == \A k \in 1..Len(fut) : fut[k].pc \in {"done", "skipped", "failed"}

LockFree_Always(lock) == TRUE

\* threading.Lock: a with statement enters only when no thread holds the lock
LockFree(lock) == lock = 0

\* with write_lock: the future waits until the lock is free
StdAcquire ==
    /\ stdPc = "pool"
    /\ LockFree(std_lock)
    /\ \E k \in 1..Len(stdFut) :
          /\ stdFut[k].pc = "ready"
          /\ std_lock' = k
          /\ stdFut' = [stdFut EXCEPT ![k].pc = "writing"]
    /\ UNCHANGED <<pred_store, std_store, stdPc, stdTodo, stdAuthNone>>
    /\ UNCHANGED <<processed_list, mergeIdx, std_prior, retried>>
    /\ UNCHANGED <<parseVars, diffVars, tokVars, runVars, icdVars>>

\* open(output_path, 'a') and fout.write(...) of the whole record, then the
\* release of the lock
StdWrite ==
    /\ stdPc = "pool"
    /\ \E k \in 1..Len(stdFut) :
          /\ stdFut[k].pc = "writing"
          /\ std_lock = k
          /\ std_store' = File(Append(ParsedData(std_store),
                 [pmid |-> stdTodo[k].pmid,
                  pred_diagnoses |-> stdTodo[k].pred_diagnoses,
                  standardized_pred_diagnosis |-> stdFut[k].standard]))
          /\ stdAuthNone' = (stdAuthNone \/ stdFut[k].authFail)
          /\ std_lock' = 0
          /\ stdFut' = [stdFut EXCEPT ![k].pc = "done", ![k].authFail = FALSE]
    /\ UNCHANGED <<pred_store, stdPc, stdTodo>>
    /\ UNCHANGED <<processed_list, mergeIdx, std_prior, retried>>
    /\ UNCHANGED <<parseVars, diffVars, tokVars, runVars, icdVars>>

\* the executor's with block ends when every future has finished
StdJoin ==
    /\ stdPc = "pool"
    /\ AllFinished(stdFut)
    /\ stdPc' = "done"
    /\ UNCHANGED <<pred_store, std_store, stdTodo, stdFut, std_lock, stdAuthNone>>
    /\ UNCHANGED <<processed_list, mergeIdx, std_prior, retried>>
    /\ UNCHANGED <<parseVars, diffVars, tokVars, runVars, icdVars>>

\* correct_pred_icd_11_none, which the program calls when
\* get_pred_icd_11_parallel has returned, its data and futures gone with it:
\* pred_list and processed_list are read
StdMergeRead ==
    /\ stdPc = "done"
    /\ processed_list' = ParsedData(std_store)
    /\ mergeIdx' = 1
    /\ stdPc' = "merge"
    /\ stdTodo' = <<>>
    /\ stdFut' = <<>>
    /\ UNCHANGED <<pred_store, std_store, std_lock, stdAuthNone, std_prior, retried>>
    /\ UNCHANGED <<parseVars, diffVars, tokVars, runVars, icdVars>>

\* the first record of processed_list with the pmid, 0 if there is none
FirstWithPmid(list, pmid) ==
    IF \E i \in 1..Len(list) : list[i].pmid = pmid
    THEN Min({i \in 1..Len(list) : list[i].pmid = pmid})
    ELSE 0

NoneEntries_Never(proc) == {}

\* the entries of a record that the merge tries again: item.get('code') is None
NoneEntries(proc) ==
    {n \in 1..Len(proc.standardized_pred_diagnosis) :
        proc.standardized_pred_diagnosis[n].code = NoneStr}

Patched_MarksFailure(entry, icd) ==
    IF icd.st = "val" THEN StEntry(entry.original_term, icd)
    ELSE [entry EXCEPT !.title = "unresolved"]

\* item.update(code=..., title=..., chapter=...) when icd is not None
Patched(entry, icd) ==
    IF icd.st = "val" THEN StEntry(entry.original_term, icd) ELSE entry

\* one turn of the loop over pred_list: a pred whose pmid is not in
\* processed_pmids is standardized and appended; else the None entries of the
\* first record with its pmid are tried again.  An exception that leaves
\* try_icd_encoding ends correct_pred_icd_11_none before it writes.
StdMergeItem ==
    /\ stdPc = "merge"
    /\ mergeIdx <= Len(pred_store)
    /\ LET pred == pred_store[mergeIdx]
           at == FirstWithPmid(processed_list, pred.pmid)
       IN IF at = 0
          THEN \E svcs \in [1..Len(pred.pred_diagnoses) -> MergeServices] :
                  IF RaisesAt(pred.pred_diagnoses, svcs) # {}
                  THEN /\ stdPc' = "failed"
                       /\ UNCHANGED <<processed_list, mergeIdx, retried>>
                  ELSE /\ processed_list' = Append(processed_list,
                              [pmid |-> pred.pmid,
                               pred_diagnoses |-> pred.pred_diagnoses,
                               standardized_pred_diagnosis |->
                                   StandardOf(pred.pred_diagnoses, svcs)])
                       /\ mergeIdx' = mergeIdx + 1
                       /\ UNCHANGED <<stdPc, retried>>
          ELSE LET proc == processed_list[at]
                   std == proc.standardized_pred_diagnosis
               IN \E svcs \in [NoneEntries(proc) -> MergeServices] :
                     IF \E n \in NoneEntries(proc) : try_icd_encoding(svcs[n]).st = "exc"
                     THEN /\ stdPc' = "failed"
                          /\ UNCHANGED <<processed_list, mergeIdx, retried>>
                     ELSE /\ processed_list' =
                                [processed_list EXCEPT ![at].standardized_pred_diagnosis =
                                    [n \in 1..Len(std) |->
                                        IF n \in NoneEntries(proc)
                                        THEN Patched(std[n], try_icd_encoding(svcs[n]))
                                        ELSE std[n]]]
                          /\ retried' = retried \cup
                                {<<proc.pmid, std[n].original_term>> : n \in NoneEntries(proc)}
                          /\ mergeIdx' = mergeIdx + 1
                          /\ UNCHANGED stdPc
    /\ UNCHANGED <<pred_store, std_store, stdTodo, stdFut, std_lock, stdAuthNone, std_prior>>
    /\ UNCHANGED <<parseVars, diffVars, tokVars, runVars, icdVars>>

\* write_jsonl(processed_list, output_path): open(file_path, 'w') empties the
\* file, or creates it
StdMergeOpen ==
    /\ stdPc = "merge"
    /\ mergeIdx > Len(pred_store)
    /\ std_store' = File(<<>>)
    /\ stdPc' = "write"
    /\ UNCHANGED <<pred_store, stdTodo, stdFut, std_lock, stdAuthNone,
                   processed_list, mergeIdx, std_prior, retried>>
    /\ UNCHANGED <<parseVars, diffVars, tokVars, runVars, icdVars>>

\* the loop of write_jsonl and the end of its with block: the records, which
\* f.write has collected in the buffer of the file object, are written to the
\* file when it is closed, and correct_pred_icd_11_none returns
StdMergeWrite ==
    /\ stdPc = "write"
    /\ std_store' = File(processed_list)
    /\ stdPc' = "merged"
    /\ UNCHANGED <<pred_store, stdTodo, stdFut, std_lock, stdAuthNone,
                   processed_list, mergeIdx, std_prior, retried>>
    /\ UNCHANGED <<parseVars, diffVars, tokVars, runVars, icdVars>>

-----------------------------------------------------------------------------
(***************************************************************************)
(* THE PREDICTION RUNNERS, main_eval and main_eval_parallel: max_retries   *)
(* passes, each a diff and one request to the model per item still to do,  *)
(* then the backfill make_up_illegal_output.  main_eval handles the items  *)
(* one after another; main_eval_parallel submits one future per item and   *)
(* appends under write_lock.                                               *)
(***************************************************************************)
\* what model() returns for one item: None when the request failed, a list
\* literal, or text that is no list and has no marker
RunResponses == {NonString, <<"[", "qA", "]">>, <<"nA">>}

\* the benchmark file: records of distinct pmids, in any order
RunItems == {[pmid |-> p] : p \in 1..MaxItems}
RunInputs ==
    {s \in SeqsUpTo(RunItems, MaxItems) : \A i, j \in 1..Len(s) : s[i] = s[j] => i = j}

\* temp_res, and dummy_output of the backfill
TempRes(pmid, diagnosis_list) == [pmid |-> pmid, pred_diagnoses |-> diagnosis_list]
DummyOutput(pmid) == [pmid |-> pmid, pred_diagnoses |-> <<>>]

\* a record an earlier run has left in the output file
OldPrediction ==
    TempRes(1, extract_diagnosis_list_from_output(<<"[", "qA", "]">>).val)

\* a line of the output file that was cut before its end
TornLine == [pmid |-> 0, pred_diagnoses |-> <<>>]

\* read_jsonl: json.loads raises on a line that is no JSON value, and
\* read_jsonl raises ValueError
Undecodable(file) == \E i \in 1..Len(file.recs) : file.recs[i] = TornLine

write_jsonl_append_Truncates(rec, file) == File(<<rec>>)

\* write_jsonl_append: open(file_path, 'a') creates the file
write_jsonl_append(rec, file) == File(Append(ParsedData(file), rec))

LoopHead_OneMore(i, n) == IF i <= n THEN "pass" ELSE "backfill"

\* for i in range(max_retries): the next pass, or the backfill after the loop
LoopHead(i, n) == IF i < n THEN "pass" ELSE "backfill"

\* the defects validate_benchmark looks for in a record, in its order
Defects ==
    <<"pmid", "patient_info", "basic_info", "supplementary_info", "sups_type",
      "caption", "path", "path_type", "image">>

\* a benchmark file: at names the record with the defect, 0 when no record
\* has one; a file that does not exist has no record
NoDefect == [exists |-> TRUE, at |-> 0, defect |-> ""]
Benchmarks(data) ==
    {NoDefect}
    \cup {[exists |-> TRUE, at |-> i, defect |-> Defects[d]] :
             i \in 1..Len(data), d \in 1..Len(Defects)}
    \cup (IF data = <<>> THEN {[exists |-> FALSE, at |-> 0, defect |-> ""]} ELSE {})

validate_benchmark_SkipsImages(b, data) ==
    IF ~b.exists \/ (b.at # 0 /\ b.defect # "image") THEN Raised("ValueError")
    ELSE RetNone

\* validate_benchmark: ValueError when the file does not exist or when a
\* record lacks a field, has one of the wrong type, or names an image file
\* that does not exist; else it returns
validate_benchmark(b, data) ==
    IF ~b.exists THEN Raised("ValueError")
    ELSE IF \E i \in 1..Len(data) :
               b.at = i /\ \E d \in 1..Len(Defects) : b.defect = Defects[d]
    THEN Raised("ValueError")
    ELSE RetNone

RunIdle ==
    /\ input_data = <<>>
    /\ output_file = NoFile
    /\ parallel = FALSE
    /\ max_retries = 0
    /\ runPc = "idle"
    /\ retry = 0
    /\ todo_data = <<>>
    /\ runIdx = 0
    /\ runFut = <<>>
    /\ write_lock = 0
    /\ runExc = "none"
    /\ rerun = FALSE
    /\ queried = FALSE
    /\ finished_output = NoFile
    /\ benchmark = NoDefect
    /\ appended = <<>>
    /\ unparsed = {}
    /\ warned = {}
    /\ asked = {}
    /\ restarted = FALSE
    /\ pass_start = NoFile

RunInit ==
    /\ input_data \in RunInputs
    /\ output_file \in {NoFile, File(<<>>), File(<<OldPrediction>>)}
    /\ parallel \in BOOLEAN
    /\ max_retries \in 0..MaxRetries
    /\ benchmark \in Benchmarks(input_data)
    /\ runPc = "start"
    /\ retry = 0
    /\ todo_data = <<>>
    /\ runIdx = 0
    /\ runFut = <<>>
    /\ write_lock = 0
    /\ runExc = "none"
    /\ rerun = FALSE
    /\ queried = FALSE
    /\ finished_output = NoFile
    /\ appended = <<>>
    /\ unparsed = {}
    /\ warned = {}
    /\ asked = {}
    /\ restarted = FALSE
    /\ pass_start = NoFile

\* validate_benchmark, the first call of main_eval and of main_eval_parallel
Validate ==
    /\ runPc = "start"
    /\ IF validate_benchmark(benchmark, input_data).kind = "raise"
       THEN /\ runPc' = "crashed"
            /\ runExc' = validate_benchmark(benchmark, input_data).exc
       ELSE /\ runPc' = LoopHead(0, max_retries)
            /\ UNCHANGED runExc
    /\ UNCHANGED <<input_data, output_file, parallel, max_retries, retry, todo_data,
                   runIdx, runFut, write_lock, rerun, queried, finished_output,
                   benchmark, appended, unparsed, warned>>
    /\ UNCHANGED <<asked, restarted>>
    /\ UNCHANGED pass_start
    /\ UNCHANGED <<parseVars, diffVars, tokVars, stdVars, icdVars>>

\* main_eval: the diff of a pass; the loop over an empty todo_data ends at once
SeqDiff ==
    /\ ~parallel
    /\ runPc = "pass"
    /\ IF Undecodable(output_file)
       THEN /\ runPc' = "crashed"
            /\ runExc' = "ValueError"
            /\ UNCHANGED <<todo_data, retry, runIdx, unparsed, warned, pass_start>>
       ELSE /\ todo_data' = get_todo_data(input_data, output_file)
            /\ retry' = retry + 1
            /\ runIdx' = 1
            /\ runPc' = IF todo_data' = <<>> THEN LoopHead(retry', max_retries) ELSE "item"
            /\ unparsed' = {}
            /\ warned' = {}
            /\ pass_start' = output_file
            /\ UNCHANGED runExc
    /\ UNCHANGED <<input_data, output_file, parallel, max_retries, runFut,
                   write_lock, rerun, queried, finished_output,
                   benchmark, appended>>
    /\ UNCHANGED <<asked, restarted>>
    /\ UNCHANGED <<parseVars, diffVars, tokVars, stdVars, icdVars>>

\* main_eval: one turn of the loop over todo_data.  Nothing catches an
\* exception of the turn, so it ends main_eval.
SeqItem ==
    /\ ~parallel
    /\ runPc = "item"
    /\ \E result \in RunResponses :
          LET diagnosis_list == extract_diagnosis_list_from_output(result)
              pmid == todo_data[runIdx].pmid
          IN
          IF diagnosis_list.kind = "raise"
          THEN /\ runPc' = "crashed"
               /\ runExc' = diagnosis_list.exc
               /\ unparsed' = unparsed \cup {pmid}
               /\ UNCHANGED <<output_file, runIdx, appended, warned>>
          ELSE /\ IF diagnosis_list.kind = "list"
                  THEN /\ output_file' =
                             write_jsonl_append(TempRes(pmid, diagnosis_list.val),
                                                output_file)
                       /\ appended' = Append(appended, pmid)
                       /\ UNCHANGED <<unparsed, warned>>
                  ELSE \* print(f"Failed to parse diagnoses for PMID ...")
                       /\ unparsed' = unparsed \cup {pmid}
                       /\ warned' = warned \cup {pmid}
                       /\ UNCHANGED <<output_file, appended>>
               /\ runIdx' = runIdx + 1
               /\ runPc' = IF runIdx = Len(todo_data)
                           THEN LoopHead(retry, max_retries) ELSE "item"
               /\ UNCHANGED runExc
    /\ queried' = TRUE
    /\ asked' = asked \cup {todo_data[runIdx].pmid}
    /\ UNCHANGED <<input_data, parallel, max_retries, retry, todo_data, runFut,
                   write_lock, rerun, finished_output, benchmark>>
    /\ UNCHANGED restarted
    /\ UNCHANGED pass_start
    /\ UNCHANGED <<parseVars, diffVars, tokVars, stdVars, icdVars>>

\* a future of main_eval_parallel: "queued", "ready" (process_item has parsed
\* a list and waits for write_lock), "writing", "done" (it has appended its
\* record), "skipped" (it has printed the warning and returned), or "failed"
\* (process_item raised; nothing reads the future's exception)
RunFuture(pc, diags) == [pc |-> pc, diags |-> diags]

\* main_eval_parallel: the diff of a pass, the break on an empty todo_data,
\* and the submission of one future per item
ParDiff ==
    /\ parallel
    /\ runPc = "pass"
    /\ IF Undecodable(output_file)
       THEN /\ runPc' = "crashed"
            /\ runExc' = "ValueError"
            /\ UNCHANGED <<todo_data, retry, runFut, unparsed, warned, pass_start>>
       ELSE /\ todo_data' = get_todo_data(input_data, output_file)
            /\ retry' = retry + 1
            /\ runFut' = [k \in 1..Len(todo_data') |-> RunFuture("queued", <<>>)]
            /\ runPc' = IF todo_data' = <<>> THEN "backfill" ELSE "pool"
            /\ unparsed' = {}
            /\ warned' = {}
            /\ pass_start' = output_file
            /\ UNCHANGED runExc
    /\ UNCHANGED <<input_data, output_file, parallel, max_retries, runIdx,
                   write_lock, rerun, queried, finished_output,
                   benchmark, appended>>
    /\ UNCHANGED <<asked, restarted>>
    /\ UNCHANGED <<parseVars, diffVars, tokVars, stdVars, icdVars>>

RunBusy == {k \in 1..Len(runFut) : runFut[k].pc \in {"ready", "writing"}}
RunQueued == {k \in 1..Len(runFut) : runFut[k].pc = "queued"}

\* a free thread of the pool takes the oldest queued future and runs
\* process_item up to write_lock
ParProcess ==
    /\ runPc = "pool"
    /\ RunQueued # {}
    /\ Cardinality(RunBusy) < MaxWorkers
    /\ \E result \in RunResponses :
          LET diags == extract_diagnosis_list_from_output(result)
              pmid == todo_data[Min(RunQueued)].pmid
          IN
          /\ runFut' = [runFut EXCEPT ![Min(RunQueued)] =
                 IF diags.kind = "raise" THEN RunFuture("failed", <<>>)
                 ELSE IF diags.kind = "list" THEN RunFuture("ready", diags.val)
                 ELSE RunFuture("skipped", <<>>)]
          /\ unparsed' = IF diags.kind = "list" THEN unparsed ELSE unparsed \cup {pmid}
          \* print(f"Failed to parse diagnoses for PMID ...") when diags is None
          /\ warned' = IF diags.kind = "none" THEN warned \cup {pmid} ELSE warned
    /\ queried' = TRUE
    /\ asked' = asked \cup {todo_data[Min(RunQueued)].pmid}
    /\ UNCHANGED <<input_data, output_file, parallel, max_retries, runPc, retry,
                   todo_data, runIdx, write_lock, runExc, rerun, finished_output,
                   benchmark, appended>>
    /\ UNCHANGED restarted
    /\ UNCHANGED pass_start
    /\ UNCHANGED <<parseVars, diffVars, tokVars, stdVars, icdVars>>

\* with write_lock: the future waits until the lock is free
ParAcquire ==
    /\ runPc = "pool"
    /\ LockFree(write_lock)
    /\ \E k \in 1..Len(runFut) :
          /\ runFut[k].pc = "ready"
          /\ write_lock' = k
          /\ runFut' = [runFut EXCEPT ![k].pc = "writing"]
    /\ UNCHANGED <<input_data, output_file, parallel, max_retries, runPc, retry,
                   todo_data, runIdx, runExc, rerun, queried, finished_output,
                   benchmark, appended, unparsed, warned>>
    /\ UNCHANGED <<asked, restarted>>
    /\ UNCHANGED pass_start
    /\ UNCHANGED <<parseVars, diffVars, tokVars, stdVars, icdVars>>

\* write_jsonl_append(temp_res, output_path), then the release of the lock
ParWrite ==
    /\ runPc = "pool"
    /\ \E k \in 1..Len(runFut) :
          /\ runFut[k].pc = "writing"
          /\ write_lock = k
          /\ output_file' =
                write_jsonl_append(TempRes(todo_data[k].pmid, runFut[k].diags),
                                   output_file)
          /\ appended' = Append(appended, todo_data[k].pmid)
          /\ write_lock' = 0
          /\ runFut' = [runFut EXCEPT ![k].pc = "done"]
    /\ UNCHANGED <<input_data, parallel, max_retries, runPc, retry, todo_data,
                   runIdx, runExc, rerun, queried, finished_output, benchmark,
                   unparsed, warned>>
    /\ UNCHANGED <<asked, restarted>>
    /\ UNCHANGED pass_start
    /\ UNCHANGED <<parseVars, diffVars, tokVars, stdVars, icdVars>>

\* the executor's with block ends when every future has finished
ParJoin ==
    /\ runPc = "pool"
    /\ AllFinished(runFut)
    /\ runPc' = LoopHead(retry, max_retries)
    /\ UNCHANGED <<input_data, output_file, parallel, max_retries, retry, runFut,
                   todo_data, runIdx, write_lock, runExc, rerun, queried,
                   finished_output, benchmark, appended, unparsed, warned>>
    /\ UNCHANGED <<asked, restarted>>
    /\ UNCHANGED pass_start
    /\ UNCHANGED <<parseVars, diffVars, tokVars, stdVars, icdVars>>

MissingPmids_IgnoresOutput(input_pmids, output_pmids) == Range(input_pmids)

\* set(input_pmids) - set(output_pmids)
MissingPmids(input_pmids, output_pmids) == Range(input_pmids) \ Range(output_pmids)

\* list(a set): its elements once each, in an order the set decides
ListsOf(S) == {s \in [1..Cardinality(S) -> S] : Range(s) = S}

\* make_up_illegal_output: read_jsonl(output_jsonl) raises when the file does
\* not exist or holds a line that is no JSON value; else one dummy_output is
\* appended per missing pmid
RunBackfill ==
    /\ runPc = "backfill"
    /\ IF ~output_file.exists
       THEN /\ runPc' = "crashed"
            /\ runExc' = "FileNotFoundError"
            /\ UNCHANGED <<output_file, appended>>
       ELSE IF Undecodable(output_file)
       THEN /\ runPc' = "crashed"
            /\ runExc' = "ValueError"
            /\ UNCHANGED <<output_file, appended>>
       ELSE /\ \E missing_pmids \in
                   ListsOf(MissingPmids(PmidsOf(input_data), PmidsOf(output_file.recs))) :
                  /\ output_file' =
                         File(output_file.recs \o
                              [k \in 1..Len(missing_pmids) |-> DummyOutput(missing_pmids[k])])
                  /\ appended' = appended \o missing_pmids
            /\ runPc' = "done"
            /\ UNCHANGED runExc
    /\ UNCHANGED <<input_data, parallel, max_retries, retry, todo_data, runIdx,
                   runFut, write_lock, rerun, queried, finished_output, benchmark,
                   unparsed, warned>>
    /\ UNCHANGED <<asked, restarted>>
    /\ UNCHANGED pass_start
    /\ UNCHANGED <<parseVars, diffVars, tokVars, stdVars, icdVars>>

\* the program is started again on the same benchmark file and output file,
\* sequential or parallel, with any max_retries
RunAgain ==
    /\ runPc = "done"
    /\ ~rerun
    /\ rerun' = TRUE
    /\ finished_output' = output_file
    /\ queried' = FALSE
    /\ parallel' \in BOOLEAN
    /\ max_retries' \in 0..MaxRetries
    /\ runPc' = "start"
    /\ retry' = 0
    /\ todo_data' = <<>>
    /\ runIdx' = 0
    /\ appended' = <<>>
    /\ unparsed' = {}
    /\ warned' = {}
    /\ runFut' = <<>>
    /\ UNCHANGED <<input_data, output_file, write_lock, runExc, benchmark>>
    /\ asked' = {}
    /\ UNCHANGED restarted
    /\ pass_start' = NoFile
    /\ UNCHANGED <<parseVars, diffVars, tokVars, stdVars, icdVars>>

\* the process is stopped during a pass, between two appends: the threads of
\* the pool end with it and the output file stays as the appends so far left it
Stop ==
    /\ runPc \in {"item", "pool"}
    /\ ~restarted
    /\ runPc' = "stopped"
    /\ finished_output' = output_file
    /\ runFut' = <<>>
    /\ write_lock' = 0
    /\ UNCHANGED <<input_data, output_file, parallel, max_retries, retry, todo_data,
                   runIdx, runExc, rerun, queried, benchmark, appended, unparsed,
                   warned, asked, restarted>>
    /\ UNCHANGED pass_start
    /\ UNCHANGED <<parseVars, diffVars, tokVars, stdVars, icdVars>>

\* the process is stopped during an append, inside f.write of
\* write_jsonl_append: a part of the line is in the output file
StopInAppend ==
    /\ ~restarted
    /\ IF parallel
       THEN /\ runPc = "pool"
            /\ \E k \in 1..Len(runFut) : runFut[k].pc = "writing"
            /\ UNCHANGED <<queried, asked>>
       ELSE /\ runPc = "item"
            /\ queried' = TRUE
            /\ asked' = asked \cup {todo_data[runIdx].pmid}
    /\ output_file' = File(Append(ParsedData(output_file), TornLine))
    /\ runPc' = "stopped"
    /\ finished_output' = output_file'
    /\ runFut' = <<>>
    /\ write_lock' = 0
    /\ UNCHANGED <<input_data, parallel, max_retries, retry, todo_data, runIdx,
                   runExc, rerun, benchmark, appended, unparsed, warned, restarted>>
    /\ UNCHANGED pass_start
    /\ UNCHANGED <<parseVars, diffVars, tokVars, stdVars, icdVars>>

\* the program is started again with the same arguments on the same benchmark
\* file and output file
Restart ==
    /\ runPc = "stopped"
    /\ restarted' = TRUE
    /\ runPc' = "start"
    /\ retry' = 0
    /\ todo_data' = <<>>
    /\ runIdx' = 0
    /\ queried' = FALSE
    /\ asked' = {}
    /\ appended' = <<>>
    /\ unparsed' = {}
    /\ warned' = {}
    /\ UNCHANGED <<input_data, output_file, parallel, max_retries, runFut,
                   write_lock, runExc, rerun, finished_output, benchmark>>
    /\ pass_start' = NoFile
    /\ UNCHANGED <<parseVars, diffVars, tokVars, stdVars, icdVars>>

-----------------------------------------------------------------------------
(* The specifications. *)

InitParse == ParseInit /\ DiffIdle /\ TokIdle /\ StdIdle /\ RunIdle /\ IcdIdle
NextParse == Extract
SpecParse == InitParse /\ [][NextParse]_vars

InitDiff == DiffInit /\ ParseIdle /\ TokIdle /\ StdIdle /\ RunIdle /\ IcdIdle
NextDiff == DiffPred \/ DiffStd
SpecDiff == InitDiff /\ [][NextDiff]_vars

InitToken == TokIdle /\ ParseIdle /\ DiffIdle /\ StdIdle /\ RunIdle /\ IcdIdle
NextToken == SeqBegin \/ SeqExchangeOk \/ SeqExchangeFail \/ SeqReturn \/ ClockTick
SpecToken == InitToken /\ [][NextToken]_vars

\* _get_token called from the threads of a pool
NextTokenConc == ConcBegin \/ SeqExchangeOk \/ SeqExchangeFail \/ SeqReturn \/ ClockTick
SpecTokenConc == InitToken /\ [][NextTokenConc]_vars

InitStd == StdInit /\ ParseIdle /\ DiffIdle /\ TokIdle /\ RunIdle /\ IcdIdle
NextStd ==
    \/ StdDiff \/ StdResolve \/ StdAcquire \/ StdWrite \/ StdJoin
    \/ StdMergeRead \/ StdMergeItem \/ StdMergeOpen \/ StdMergeWrite
SpecStd == InitStd /\ [][NextStd]_vars

InitWalk == WalkInit /\ TryIdle /\ FlexIdle /\ ParseIdle /\ DiffIdle /\ TokIdle /\ StdIdle /\ RunIdle
NextWalk == WalkStart \/ WalkHop
SpecWalk == InitWalk /\ [][NextWalk]_vars
\* the thread that walks keeps running
FairSpecWalk == SpecWalk /\ WF_vars(WalkStart) /\ WF_vars(WalkHop)

InitTry == TryInit /\ WalkIdle /\ FlexIdle /\ ParseIdle /\ DiffIdle /\ TokIdle /\ StdIdle /\ RunIdle
NextTry == TryCall
SpecTry == InitTry /\ [][NextTry]_vars

InitFlex == FlexInit /\ WalkIdle /\ TryIdle /\ ParseIdle /\ DiffIdle /\ TokIdle /\ StdIdle /\ RunIdle
NextFlex == FlexCall
SpecFlex == InitFlex /\ [][NextFlex]_vars

InitRun == RunInit /\ ParseIdle /\ DiffIdle /\ TokIdle /\ StdIdle /\ IcdIdle
NextRun ==
    \/ Validate
    \/ SeqDiff \/ SeqItem
    \/ ParDiff \/ ParProcess \/ ParAcquire \/ ParWrite \/ ParJoin
    \/ RunBackfill \/ RunAgain
SpecRun == InitRun /\ [][NextRun]_vars

\* a run of the prediction stage that may be stopped during a pass and
\* started again
NextRestart ==
    \/ Validate
    \/ SeqDiff \/ SeqItem
    \/ ParDiff \/ ParProcess \/ ParAcquire \/ ParWrite \/ ParJoin
    \/ RunBackfill
    \/ Stop \/ StopInAppend \/ Restart
SpecRestart == InitRun /\ [][NextRestart]_vars

\* either stage of the pipeline, started on its files: the prediction stage
\* (main_eval or main_eval_parallel) or the standardization stage
InitPools ==
    \/ RunInit /\ StdOff /\ ParseIdle /\ DiffIdle /\ TokIdle /\ IcdIdle
    \/ StdInit /\ RunIdle /\ ParseIdle /\ DiffIdle /\ TokIdle /\ IcdIdle
NextPools ==
    \/ Validate
    \/ SeqDiff \/ SeqItem
    \/ ParDiff \/ ParProcess \/ ParAcquire \/ ParWrite \/ ParJoin
    \/ RunBackfill \/ RunAgain
    \/ StdDiff \/ StdResolve \/ StdAcquire \/ StdWrite \/ StdJoin
    \/ StdMergeRead \/ StdMergeItem \/ StdMergeOpen \/ StdMergeWrite
SpecPools == InitPools /\ [][NextPools]_vars

-----------------------------------------------------------------------------
(* The claims about the parser. *)

\* the four strategies of the documentation, each on its own
StrategyWhole(t) == WholeLiteral(t)
StrategyBracket(t) ==
    IF BracketSnippet(t).ok THEN SnippetParse(BracketSnippet(t).val) ELSE Fail
StrategyQuoted(t) ==
    IF HasMarker(t) /\ Quoted(OutputPart(t)) # <<>> THEN Ok(Quoted(OutputPart(t))) ELSE Fail
StrategyNumbered(t) ==
    IF HasMarker(t) /\ Numbered(OutputPart(t)) # <<>> THEN Ok(Numbered(OutputPart(t))) ELSE Fail

FirstStrategy(t) ==
    IF StrategyWhole(t).ok THEN StrategyWhole(t)
    ELSE IF StrategyBracket(t).ok THEN StrategyBracket(t)
    ELSE IF StrategyQuoted(t).ok THEN StrategyQuoted(t)
    ELSE StrategyNumbered(t)

SomeStrategy(text) == text # NonString /\ FirstStrategy(Strip(text)).ok

\* C3: a response that one of the four strategies (whole list literal,
\* bracketed list after the marker, quoted substrings after the marker,
\* numbered lines after the marker) can parse yields the list of the first
\* strategy that succeeds
C3_FirstStrategyWins ==
    (parsed # Unset /\ SomeStrategy(response))
        => parsed = RetList(FirstStrategy(Strip(response)).val)

\* C4: a response that no strategy can parse, or that is no string, yields
\* None and raises nothing
C4_UnparsableYieldsNone ==
    (parsed # Unset /\ ~SomeStrategy(response)) => parsed = RetNone

-----------------------------------------------------------------------------
(* The claims about the job diff. *)

\* C6: the diff of either stage returns exactly the source items whose pmid
\* is not among the pmids of the sink: each such item as often as the source
\* holds it, and no item whose pmid the sink holds
C6_DiffCorrect ==
    diffStage # "none" =>
        \A p \in Pmids :
            Count(PmidsOf(todo), p) =
                IF p \in Range(PmidsOf(ParsedData(sink))) THEN 0
                ELSE Count(PmidsOf(source), p)

\* C6 witness: a diff over an existing sink that drops some items and keeps others
C6_Witness ==
    /\ diffStage # "none"
    /\ sink.exists
    /\ todo # <<>>
    /\ Len(todo) < Len(source)

\* C7: the diff of either stage returns the pending items sorted by pmid
C7_DiffSorted == diffStage # "none" => IsSorted(PmidsOf(todo))

-----------------------------------------------------------------------------
(* The claims about the token cache. *)

\* the call found a token cached and started before the cached expiry
InWindow(k) == k.tok0 # 0 /\ k.now < k.exp0

\* C9: of calls made one after another, a call that starts within the expiry
\* window posts no request and returns the cached token; a call that starts
\* with no token cached, or at or after the expiry, posts exactly one request
\* and returns the token of that answer, and the cached expiry is then the
\* time of the call plus expires_in minus 10 seconds
C9_TokenRefresh ==
    \A c \in Callers :
        tokPc[c] = "done" =>
            IF InWindow(tokCall[c])
            THEN tokCall[c].posted = 0 /\ tokCall[c].ret = tokCall[c].tok0
            ELSE /\ tokCall[c].posted = 1
                 /\ tokCall[c].ret = tokCall[c].newTok
                 /\ tokCall[c].ret # tokCall[c].tok0
                 /\ tokCall[c].expiry =
                        tokCall[c].now + tokCall[c].expires_in - RefreshMargin

\* C9 witness: one finished call reused the cached token within the window,
\* another found the cached token expired and fetched a new one
C9_Witness ==
    \E c, d \in Callers :
        /\ tokPc[c] = "done" /\ InWindow(tokCall[c]) /\ tokCall[c].ret = tokCall[c].tok0
        /\ tokPc[d] = "done" /\ tokCall[d].tok0 # 0 /\ tokCall[d].now >= tokCall[d].exp0
        /\ tokCall[d].ret # tokCall[d].tok0

\* C16: of the callers of _get_token, at most one is between the test of the
\* cache and the answer of the token endpoint at any time
C16_SingleExchangeInFlight == Cardinality({c \in Callers : tokPc[c] = "post"}) <= 1

-----------------------------------------------------------------------------
(* The claims about the resolver and the standardization runner. *)

StdRecords == ParsedData(std_store)
AllNone(e) == e.code = NoneStr /\ e.title = NoneStr /\ e.chapter = NoneStr
Resolved(e) == e.code # NoneStr /\ e.title # NoneStr /\ e.chapter # NoneStr

\* no answer of the service makes try_icd_encoding raise
ResolverTotal == \A svc \in Services : try_icd_encoding(svc).st # "exc"

\* C8: no exception leaves try_icd_encoding, whatever the service answers at
\* any step: no future of the batch fails, every term gets its entry (resolved
\* or None), and when the pool has finished every record that was to do is in
\* the file with one entry per term
C8_ResolverNeverRaises ==
    /\ ResolverTotal
    /\ \A k \in 1..Len(stdFut) :
          /\ stdFut[k].pc # "failed"
          /\ \A n \in 1..Len(stdFut[k].standard) :
                AllNone(stdFut[k].standard[n]) \/ Resolved(stdFut[k].standard[n])
    /\ stdPc = "done" =>
          \A k \in 1..Len(stdTodo) :
              \E i \in 1..Len(StdRecords) :
                  /\ StdRecords[i].pmid = stdTodo[k].pmid
                  /\ StdRecords[i].pred_diagnoses = stdTodo[k].pred_diagnoses
                  /\ Len(StdRecords[i].standardized_pred_diagnosis)
                        = Len(stdTodo[k].pred_diagnoses)

\* C8 witness: the pool has finished, and a record of two terms was appended
\* whose first term failed to resolve and whose second term resolved
C8_Witness ==
    /\ stdPc = "done"
    /\ \E i \in 1..Len(StdRecords) :
          LET e == StdRecords[i].standardized_pred_diagnosis IN
          Len(e) = 2 /\ AllNone(e[1]) /\ Resolved(e[2])

\* C11: after a merge pass the standardized file holds no two records with
\* the same pmid
C11_MergeNoDuplicates ==
    stdPc = "merged" =>
        \A i, j \in 1..Len(StdRecords) :
            StdRecords[i].pmid = StdRecords[j].pmid => i = j

\* C14: an unresolved term is an entry with code, title and chapter None in
\* a record of the file; the pool pass leaves the records it found as they
\* were, submits no item whose pmid the file held, and tries no entry again;
\* when the merge pass has finished, every entry that is still None in the
\* first record of a pmid of the prediction file has been tried again by it
C14_UnresolvedPersisted ==
    /\ \A i \in 1..Len(StdRecords) :
          /\ Len(StdRecords[i].standardized_pred_diagnosis)
                = Len(StdRecords[i].pred_diagnoses)
          /\ \A n \in 1..Len(StdRecords[i].standardized_pred_diagnosis) :
                LET e == StdRecords[i].standardized_pred_diagnosis[n] IN
                AllNone(e) \/ Resolved(e)
    /\ stdPc \in {"start", "pool", "done"} =>
          /\ retried = {}
          /\ Len(StdRecords) >= Len(std_prior.recs)
          /\ SubSeq(StdRecords, 1, Len(std_prior.recs)) = std_prior.recs
          /\ \A k \in 1..Len(stdTodo) :
                stdTodo[k].pmid \notin Range(PmidsOf(std_prior.recs))
    /\ stdPc = "merged" =>
          \A i \in 1..Len(StdRecords) :
              (/\ StdRecords[i].pmid \in Range(PmidsOf(pred_store))
               /\ i = FirstWithPmid(StdRecords, StdRecords[i].pmid)) =>
                  \A n \in 1..Len(StdRecords[i].standardized_pred_diagnosis) :
                      AllNone(StdRecords[i].standardized_pred_diagnosis[n]) =>
                          <<StdRecords[i].pmid,
                            StdRecords[i].standardized_pred_diagnosis[n].original_term>>
                              \in retried

\* C14 witness: the file held a record of pmid 1 whose first term was
\* unresolved; the pool pass has appended a record of pmid 2 with an unresolved
\* term, and the merge pass has then resolved the first term of pmid 1
C14_Witness ==
    /\ stdPc = "merged"
    /\ std_prior = File(<<OldStdRecord>>)
    /\ Len(StdRecords) = 2
    /\ StdRecords[1].pmid = 1
    /\ Resolved(StdRecords[1].standardized_pred_diagnosis[1])
    /\ StdRecords[2].pmid = 2
    /\ \E n \in 1..Len(StdRecords[2].standardized_pred_diagnosis) :
          AllNone(StdRecords[2].standardized_pred_diagnosis[n])
    /\ <<1, <<"A">>>> \in retried

\* C10: a failed credential exchange is fatal: no entry is written as
\* unresolved because the exchange failed
C10_AuthFailureIsFatal == ~stdAuthNone

-----------------------------------------------------------------------------
(* The claims about the chapter walk. *)

\* the walk has returned or raised
WalkEnded == walkPc \in {"done", "raised"}

\* C17: the chapter walk ends, whatever the parents of the entities are
C17_WalkTerminates == <>WalkEnded

\* the entities from e up to the one whose first parent is the root, <<>> when
\* the first parents of at most n entities from e on do not lead to the root
RECURSIVE ChainFrom(_, _)
ChainFrom(e, n) ==
    IF n = 0 \/ parent_of[e] = NoParent THEN <<>>
    ELSE IF parent_of[e] = RootId THEN <<e>>
    ELSE IF ChainFrom(parent_of[e], n - 1) = <<>> THEN <<>>
    ELSE <<e>> \o ChainFrom(parent_of[e], n - 1)

\* the chain of the entity that the stem of the code names
CodeChain == ChainFrom(icd_code[1][2], MaxEntities)

\* C18: for a code whose stem names an entity with a chain of k entities up
\* to the root, with or without cluster qualifiers after '&', the walk does
\* not raise, is at the n-th entity of the chain after n fetches, and returns
\* the title of the last entity of the chain after exactly k fetches
C18_ChapterOfChain ==
    /\ walkPc = "raised" => CodeChain = <<>>
    /\ (walkPc = "walk" /\ CodeChain # <<>>) =>
          /\ fetches \in 1..Len(CodeChain)
          /\ cur_url_info = CodeChain[fetches]
    /\ walkPc = "done" =>
          /\ CodeChain # <<>>
          /\ fetches = Len(CodeChain)
          /\ walk_title = TitleOf(CodeChain[Len(CodeChain)])

\* C18 witness: a code with a cluster qualifier, a chain of three entities,
\* and the walk has returned the title of the third after three fetches
C18_Witness ==
    /\ walkPc = "done"
    /\ Len(icd_code) > 1
    /\ Len(CodeChain) = 3
    /\ fetches = 3
    /\ walk_title = TitleOf(CodeChain[3])

-----------------------------------------------------------------------------
(* The claims about one call of the resolver. *)

\* C19: with a token at hand, an autocode answer with a code is accepted at
\* once (the chapter lookup is the only further request); when the autocode
\* request raises or its answer has no code, the flexible search is sent; and
\* when that search has a candidate, autocode is sent again and its code and
\* title are accepted
C19_FallbackOnFailure ==
    (try_result # NotCalled /\ term_svc.auth = "ok") =>
        /\ term_svc.auto = "code" =>
              /\ requests_sent = <<"autocode", "chapter">>
              /\ term_svc.chap = "ok" => try_result = Val("code1", "text1", "chapter")
        /\ term_svc.auto \in {"error", "empty", "nocode"} =>
              /\ "flex" \in Range(requests_sent)
              /\ term_svc.flex = "cand" =>
                    /\ "autocode2" \in Range(requests_sent)
                    /\ (term_svc.auto2 = "code" /\ term_svc.chap = "ok") =>
                          try_result = Val("code2", "text2", "chapter")

\* C20: for a list of candidates flex_search_icd_11 returns the first of the
\* candidates with the highest score; for an empty list it raises
C20_HighestScoreFirst ==
    flex_res # 0 =>
        IF scores = <<>> THEN flex_res = -1
        ELSE /\ flex_res \in 1..Len(scores)
             /\ \A i \in 1..Len(scores) : scores[i] <= scores[flex_res]
             /\ \A i \in 1..(flex_res - 1) : scores[i] < scores[flex_res]

-----------------------------------------------------------------------------
(* The claims about the prediction runners. *)

OutputPmids == PmidsOf(ParsedData(output_file))

\* the run has come to the end of the backfill: it returned, or the backfill
\* raised
BackfillEnded == runPc = "done" \/ runExc = "FileNotFoundError"

\* C1: when a run has ended after its passes and its backfill, the output
\* file holds exactly one record for each pmid of the input
C1_Completeness ==
    BackfillEnded =>
        \A i \in 1..Len(input_data) : Count(OutputPmids, input_data[i].pmid) = 1

\* C2: no exception raised while one item is processed ends the run: the
\* run is never ended by the parser's exception
C2_FailureIsolation == ~(runPc = "crashed" /\ runExc = "UnboundLocalError")

\* C5: a run that follows a finished run over the same input and the same
\* output file sends no request to the model and leaves the output file as the
\* finished run left it
C5_Idempotent == rerun => (~queried /\ output_file = finished_output)

\* C5 witness: the second run has finished after a pass of its own, over an
\* input of two items of which the first run backfilled one
C5_Witness ==
    /\ rerun
    /\ runPc = "done"
    /\ retry > 0
    /\ Len(input_data) = 2
    /\ \E i, j \in 1..Len(output_file.recs) :
          /\ output_file.recs[i].pred_diagnoses = <<>>
          /\ output_file.recs[j].pred_diagnoses # <<>>

\* the items of the current pass that have not come to their append yet
RunPending ==
    IF parallel
    THEN {k \in 1..Len(runFut) : runFut[k].pc \in {"queued", "ready", "writing"}}
    ELSE {k \in 1..Len(todo_data) : k >= runIdx}

Invalid == ~benchmark.exists \/ benchmark.at # 0

\* C13: on an invalid benchmark file the run goes no further than
\* validate_benchmark, which raises ValueError: no pass starts, no request is
\* sent to the model and no record is appended
C13_ValidationFirst ==
    Invalid =>
        /\ runPc \in {"start", "crashed"}
        /\ runPc = "crashed" => runExc = "ValueError"
        /\ retry = 0
        /\ ~queried
        /\ appended = <<>>
        /\ output_file \in {NoFile, File(<<>>), File(<<OldPrediction>>)}

\* C13 witness: the parallel runner has stopped on a benchmark file whose
\* second record names an image file that does not exist
C13_Witness ==
    /\ parallel
    /\ runPc = "crashed"
    /\ runExc = "ValueError"
    /\ benchmark.at = 2
    /\ benchmark.defect = "image"

\* C15: every item whose output gave no list in the current pass has been
\* named by a warning of that pass, and a finished run has left a record for
\* every pmid of the input
C15_UnparsableSurfaced ==
    /\ unparsed \subseteq warned
    /\ runPc = "done" =>
          \A i \in 1..Len(input_data) : Count(OutputPmids, input_data[i].pmid) >= 1

\* the pmids of the records the stopped run left in the output file
LeftPmids == {r.pmid : r \in Range(ParsedData(finished_output)) \ {TornLine}}

\* C23: a run started again after a stop during a pass is not ended by an
\* exception, sends no request for a pmid whose record the stopped run left
\* in the output file, and when it has finished the output file holds exactly
\* one record for each pmid of the input
C23_RestartAnywhere ==
    restarted =>
        /\ runPc # "crashed"
        /\ asked \cap LeftPmids = {}
        /\ runPc = "done" =>
              \A i \in 1..Len(input_data) : Count(OutputPmids, input_data[i].pmid) = 1

\* a step of correct_pred_icd_11_none leaves the standardized file as it was
\* or makes it the complete merged content
RewriteStep ==
    stdPc \in {"merge", "write"} =>
        (std_store' = std_store \/ std_store' = File(processed_list))

\* C22: while correct_pred_icd_11_none runs, every step leaves the
\* standardized file as it was or makes it the complete merged content, so
\* that a process that stops at any point leaves one of the two
C22_AtomicRewrite == [][RewriteStep]_vars

-----------------------------------------------------------------------------
(* The claims about the two pools. *)

\* the futures that are inside the append
RunWriting == {k \in 1..Len(runFut) : runFut[k].pc = "writing"}
StdWriting == {k \in 1..Len(stdFut) : stdFut[k].pc = "writing"}

\* at most one future of a pool is inside the append, and it holds the lock
OneWriter ==
    /\ Cardinality(RunWriting) <= 1
    /\ \A k \in RunWriting : write_lock = k
    /\ RunWriting = {} => write_lock = 0
    /\ Cardinality(StdWriting) <= 1
    /\ \A k \in StdWriting : std_lock = k
    /\ StdWriting = {} => std_lock = 0

\* a step of a pool that changes the file appends the whole record of the
\* future that holds the lock, and nothing else
WholeAppend ==
    /\ (runPc = "pool" /\ output_file' # output_file) =>
          /\ write_lock # 0
          /\ output_file'.exists
          /\ output_file'.recs =
                Append(ParsedData(output_file),
                       TempRes(todo_data[write_lock].pmid, runFut[write_lock].diags))
    /\ (stdPc = "pool" /\ std_store' # std_store) =>
          /\ std_lock # 0
          /\ std_store'.exists
          /\ std_store'.recs =
                Append(ParsedData(std_store),
                       [pmid |-> stdTodo[std_lock].pmid,
                        pred_diagnoses |-> stdTodo[std_lock].pred_diagnoses,
                        standardized_pred_diagnosis |-> stdFut[std_lock].standard])

\* C21: in main_eval_parallel and in get_pred_icd_11_parallel at most one
\* future is inside the append at any time, the one that holds write_lock,
\* while other futures have their record ready; every change of the file by a
\* pool is the whole record of that future, appended after the records there
C21_OneWriterWholeRecord == []OneWriter /\ [][WholeAppend]_vars

\* C21 witness: of two futures of the standardization pool that have built
\* their records in parallel, the second is inside the append and the first
\* waits for the lock
C21_Witness ==
    /\ stdPc = "pool"
    /\ Len(stdFut) = 2
    /\ stdFut[1].pc = "ready"
    /\ stdFut[2].pc = "writing"
    /\ std_lock = 2

\* the futures of a pool that have appended their record
RunDone == {k \in 1..Len(runFut) : runFut[k].pc = "done"}
StdDone == {k \in 1..Len(stdFut) : stdFut[k].pc = "done"}

\* the pool of a pass of main_eval_parallel has finished and nothing has read
\* or written the output file since
RunPoolEnded ==
    /\ parallel
    /\ runPc \in {"pool", "pass", "backfill"}
    /\ runFut # <<>>
    /\ AllFinished(runFut)

\* C24: when the futures of a pass have finished, in whatever order they ran
\* and appended, the records of the output file are those of the file at the
\* diff of the pass and one record for each future that got a result, with
\* that result; the same holds for the standardized file when the pool of
\* get_pred_icd_11_parallel has finished
C24_PassIsSetUnion ==
    /\ RunPoolEnded =>
          /\ Range(ParsedData(output_file)) =
                Range(ParsedData(pass_start))
                \cup {TempRes(todo_data[k].pmid, runFut[k].diags) : k \in RunDone}
          /\ Len(ParsedData(output_file)) =
                Len(ParsedData(pass_start)) + Cardinality(RunDone)
    /\ stdPc = "done" =>
          /\ Range(StdRecords) =
                Range(ParsedData(std_prior))
                \cup {[pmid |-> stdTodo[k].pmid,
                       pred_diagnoses |-> stdTodo[k].pred_diagnoses,
                       standardized_pred_diagnosis |-> stdFut[k].standard] : k \in StdDone}
          /\ Len(StdRecords) = Len(ParsedData(std_prior)) + Cardinality(StdDone)

\* C24 witness: the two futures of a pass of main_eval_parallel have appended
\* their records, the second submitted before the first
C24_Witness ==
    /\ RunPoolEnded
    /\ Len(todo_data) = 2
    /\ RunDone = {1, 2}
    /\ Len(output_file.recs) = 2
    /\ output_file.recs[1].pmid = todo_data[2].pmid
    /\ output_file.recs[2].pmid = todo_data[1].pmid

-----------------------------------------------------------------------------
(* The claims about the merge pass and the persisted entries. *)

\* an entry after a step and before it: the term is the same, an entry with a
\* code is the same, and an entry without one is the same or resolved
EntryKept(o, w) ==
    /\ w.original_term = o.original_term
    /\ o.code # NoneStr => w = o
    /\ o.code = NoneStr => (w = o \/ Resolved(w))

\* the records of new against those of old: every record of old is at its
\* place with its pmid, its predictions and its entries, each entry kept
RecordsKept(old, new) ==
    /\ Len(new) >= Len(old)
    /\ \A i \in 1..Len(old) :
          /\ new[i].pmid = old[i].pmid
          /\ new[i].pred_diagnoses = old[i].pred_diagnoses
          /\ Len(new[i].standardized_pred_diagnosis)
                = Len(old[i].standardized_pred_diagnosis)
          /\ \A n \in 1..Len(old[i].standardized_pred_diagnosis) :
                EntryKept(old[i].standardized_pred_diagnosis[n],
                          new[i].standardized_pred_diagnosis[n])

\* a step of correct_pred_icd_11_none: it reads the records of the file,
\* keeps the records in each turn of its loop, and writes them to the file
MergeFrameStep ==
    /\ (stdPc = "done" /\ stdPc' = "merge") => processed_list' = ParsedData(std_store)
    /\ stdPc = "merge" => RecordsKept(processed_list, processed_list')
    /\ stdPc' = "merged" => std_store' = File(processed_list)

\* C25: correct_pred_icd_11_none removes and reorders no record and no entry
\* of the standardized file, changes no original_term and no entry that has a
\* code, and leaves an entry without a code exactly as it was unless the new
\* attempt resolves it
C25_MergeFrame == [][MergeFrameStep]_vars

\* C25 witness: the merge pass has tried the unresolved first term of the
\* record of pmid 1 again without result and has written the record back as
\* it was, followed by another record
C25_Witness ==
    /\ stdPc = "merged"
    /\ std_prior = File(<<OldStdRecord>>)
    /\ <<1, <<"A">>>> \in retried
    /\ Len(StdRecords) = 2
    /\ StdRecords[1] = OldStdRecord

\* the code, title and chapter of one resolution: those of the autocode answer
\* on the term, or on the label of the flexible search's candidate, with the
\* chapter of the lookup
OneResolution == {<<"code1", "text1", "chapter">>, <<"code2", "text2", "chapter">>}
WholeEntry(e) == AllNone(e) \/ <<e.code, e.title, e.chapter>> \in OneResolution

\* whatever the service answers, try_icd_encoding returns None or the three
\* values of one resolution whose chapter lookup succeeded; with a chapter
\* lookup that fails it returns None
ChapterFailureDiscards ==
    \A svc \in AnyServices :
        /\ try_icd_encoding(svc).st \in {"none", "val"}
        /\ try_icd_encoding(svc).st = "val" =>
              /\ svc.chap = "ok"
              /\ WholeEntry(try_icd_encoding(svc))
              /\ ~AllNone(try_icd_encoding(svc))
        /\ svc.chap = "error" => try_icd_encoding(svc) = NoneVal

PriorMatches ==
    \A i \in 1..Len(ParsedData(std_prior)) :
        \A j \in 1..Len(pred_store) :
            pred_store[j].pmid = std_prior.recs[i].pmid =>
                pred_store[j].pred_diagnoses = std_prior.recs[i].pred_diagnoses

\* C27: when get_pred_icd_11_parallel and then correct_pred_icd_11_none have
\* run, every pmid of the prediction file has exactly one record in the
\* standardized file, and that record has one entry for each of its predicted
\* terms, in their order
C27_OneRecordPerPrediction ==
    (stdPc = "merged" /\ PriorMatches) =>
        \A j \in 1..Len(pred_store) :
            /\ Count(PmidsOf(StdRecords), pred_store[j].pmid) = 1
            /\ \A i \in 1..Len(StdRecords) :
                  StdRecords[i].pmid = pred_store[j].pmid =>
                      /\ Len(StdRecords[i].standardized_pred_diagnosis)
                            = Len(pred_store[j].pred_diagnoses)
                      /\ \A n \in 1..Len(pred_store[j].pred_diagnoses) :
                            StdRecords[i].standardized_pred_diagnosis[n].original_term
                                = pred_store[j].pred_diagnoses[n]

-----------------------------------------------------------------------------
(* The claims about the backfill and the passes of main_eval_parallel. *)

\* the places of the output file, as the finished run left it, that hold the
\* placeholder of make_up_illegal_output
Placeholders ==
    {i \in 1..Len(ParsedData(finished_output)) :
        finished_output.recs[i] = DummyOutput(finished_output.recs[i].pmid)}

\* C28: in a run that follows a finished run on the same output file, every
\* placeholder of the backfill stays at its place as the only record of its
\* pmid, no pass has its pmid among the items to do, and no request is sent
\* to the model for it
C28_PlaceholderPermanent ==
    rerun =>
        \A i \in Placeholders :
            /\ Len(ParsedData(output_file)) >= i
            /\ output_file.recs[i] = finished_output.recs[i]
            /\ Count(OutputPmids, finished_output.recs[i].pmid)
                  = Count(PmidsOf(finished_output.recs), finished_output.recs[i].pmid)
            /\ finished_output.recs[i].pmid \notin Range(PmidsOf(todo_data))
            /\ finished_output.recs[i].pmid \notin asked

\* C28 witness: a run of main_eval_parallel that follows a finished run has
\* come to its end after a diff of its own, and the placeholder of pmid 2 is
\* where the backfill of the first run put it
C28_Witness ==
    /\ rerun
    /\ parallel
    /\ runPc = "done"
    /\ retry = 1
    /\ asked = {}
    /\ \E i \in Placeholders :
          /\ finished_output.recs[i] = DummyOutput(2)
          /\ output_file.recs[i] = DummyOutput(2)

\* the futures that process_item has not left yet
RunUnfinished ==
    {k \in 1..Len(runFut) : runFut[k].pc \in {"queued", "ready", "writing"}}

\* C29: in main_eval_parallel, whenever the next diff or the backfill is about
\* to read the output file, and from then on, every future of the pass before
\* has finished and nobody holds its write_lock; while a pool runs, its
\* futures are those of the items of the current diff, and the lock is held
\* by one of them
C29_PassesNeverOverlap ==
    parallel =>
        /\ runPc \in {"pass", "backfill", "done", "crashed"} =>
              (RunUnfinished = {} /\ write_lock = 0)
        /\ runPc = "pool" =>
              /\ Len(runFut) = Len(todo_data)
              /\ write_lock # 0 =>
                    (write_lock \in 1..Len(runFut) /\ runFut[write_lock].pc = "writing")

\* C29 witness: the first pass of main_eval_parallel has ended with one item
\* appended and one without a list, and the second pass is about to start
C29_Witness ==
    /\ parallel
    /\ runPc = "pass"
    /\ retry = 1
    /\ Len(runFut) = 2
    /\ runFut[1].pc = "skipped"
    /\ runFut[2].pc = "done"
    /\ write_lock = 0

=============================================================================
